---- MODULE Spec2Model ----
(***************************************************************************)
(* Model of the streaming agent execution of the chat application:         *)
(*   LangGraphAgentService.streamAgent  (lib/langgraph-agent-service.ts)   *)
(*   the graph loadCsvMetadata -> agent -> saveMessage (lib/langgraph)     *)
(*   agentNode's bounded tool-call loop, the CSV tools and                 *)
(*   CsvAnalysisService.executeSqlQuery.                                   *)
(*                                                                         *)
(* Text is a sequence of one-character strings, so that slice, trim,       *)
(* toLowerCase and startsWith are computed as the code computes them.      *)
(***************************************************************************)
EXTENDS Integers, Sequences, FiniteSets, TLC

VARIABLES
    sessions,            \* prisma Session table: the ids of the existing sessions
    dbMessages,          \* prisma Message table, in insertion order
    checkpoints,         \* checkpointer: thread id -> checkpointed message list
    apiKey,              \* GOOGLE_API_KEY || LLM_API_KEY is set
    llm,                 \* the chat model behind llm.invoke (a stub, see LlmStubs)
    pc,                  \* position of the execution
    gen,                 \* the fragment sequence as its consumer sees it
    error,               \* message of the error the execution raised ("" if none)
    state,               \* the graph's AgentState
    messages,            \* agentNode: the local LangChain message array
    iteration,           \* agentNode: iteration
    responseContent,     \* agentNode: responseContent
    toolRuns,            \* agentNode: the promises of the current Promise.all
    events,              \* streamEvents: events produced and not yet consumed
    accumulatedContent,  \* streamAgent: accumulatedContent
    yielded,             \* the fragments streamAgent has yielded, in order
    frames,              \* stream route: the SSE frames enqueued, in order
    trace,               \* observations of the execution (history variable)
    call,                \* a service call made outside an execution, with its result
    resources,           \* prisma Resource table, in creation order
    files,               \* uploads directory: stored path -> the file written there
    executions           \* the executions of streamAgent that run side by side

vars == << sessions, dbMessages, checkpoints, apiKey, llm, pc, gen, error, state,
           messages, iteration, responseContent, toolRuns, events,
           accumulatedContent, yielded, frames, trace, call, resources, files,
           executions >>

----------------------------------------------------------------------------
(* Bounds of the model *)

\* longest text a model response carries
MaxTextLen == 2

\* most tool-call requests in one model response
MaxToolCalls == 2

\* rows of the data filterData is given
MaxRows == 2

\* filters of the list filterData is given
MaxFilters == 2

\* turn groups of a checkpointed thread
MaxGroups == 2

\* supersteps of the conditional-routing graph the model follows
MaxSupersteps == 13

\* files written to the uploads directory
MaxUploads == 2

----------------------------------------------------------------------------
(* Program constants *)

\* agentNode: let maxIterations = 5
maxIterations == 5

\* loadCsvDataTool: data.rows.slice(0, 10)
SampleRows == 10

\* executeSqlQueryTool: result.rows.slice(0, 500)
MaxSqlRows == 500

\* getCsvSchema: parseCsv(resource.storedPath, { limit: 1000 })
SchemaSampleLimit == 1000

----------------------------------------------------------------------------
(* Text: String.prototype operations on sequences of characters *)

Min(a, b) == IF a <= b THEN a ELSE b

\* "" (the empty string)
EmptyText == << >>

Alphabet == {"a", "b"}

Texts == UNION { [1..n -> Alphabet] : n \in 0..MaxTextLen }

\* s.slice(n), n >= 0
Slice(s, n) == IF n >= Len(s) THEN << >> ELSE SubSeq(s, n + 1, Len(s))

\* s.slice(0, n), n >= 0
Take(s, n) == SubSeq(s, 1, Min(n, Len(s)))

IsSpace(c) == c \in {" ", "\n"}

RECURSIVE TrimStart(_)
TrimStart(s) == IF s # << >> /\ IsSpace(Head(s)) THEN TrimStart(Tail(s)) ELSE s

RECURSIVE TrimEnd(_)
TrimEnd(s) ==
    IF s # << >> /\ IsSpace(s[Len(s)]) THEN TrimEnd(SubSeq(s, 1, Len(s) - 1)) ELSE s

\* s.trim()
Trim(s) == TrimEnd(TrimStart(s))

LowerChar(c) ==
    CASE c = "S" -> "s" [] c = "E" -> "e" [] c = "L" -> "l" [] c = "C" -> "c"
      [] c = "T" -> "t" [] c = "D" -> "d" [] c = "R" -> "r" [] c = "O" -> "o"
      [] c = "P" -> "p" [] c = "F" -> "f" [] c = "M" -> "m" [] OTHER -> c

\* s.toLowerCase()
ToLowerCase(s) == [i \in 1..Len(s) |-> LowerChar(s[i])]

\* s.startsWith(p)
StartsWith(s, p) == Len(s) >= Len(p) /\ SubSeq(s, 1, Len(p)) = p

\* s.includes(p)
Includes(s, p) ==
    \E i \in 0..(Len(s) - Len(p)) : SubSeq(s, i + 1, i + Len(p)) = p

RECURSIVE Concat(_)
\* the fragments of a sequence joined
Concat(ss) == IF ss = << >> THEN << >> ELSE Head(ss) \o Concat(Tail(ss))

----------------------------------------------------------------------------
(* Stored data the execution reads: sessions, resources, upload files *)

\* "s1" has a checkpointed thread, "s3" is new, "s2" is no session
SessionIds == {"s1", "s2", "s3"}

\* prisma Resource rows of the sessions, in creation order
ResourceTable ==
    << [id |-> "r1", sessionId |-> "s1", originalName |-> "sales.csv",
        storedPath |-> "/uploads/r1", mimeType |-> "text/csv", sizeBytes |-> 40],
       [id |-> "r2", sessionId |-> "s1", originalName |-> "gone.CSV",
        storedPath |-> "/uploads/r2", mimeType |-> "application/vnd.ms-excel",
        sizeBytes |-> 7],
       [id |-> "r3", sessionId |-> "s3", originalName |-> "empty.csv",
        storedPath |-> "/uploads/r3", mimeType |-> "text/csv", sizeBytes |-> 5],
       [id |-> "r4", sessionId |-> "s3", originalName |-> "big.csv",
        storedPath |-> "/uploads/r4", mimeType |-> "application/csv",
        sizeBytes |-> 9000] >>

\* the files of the uploads directory: r1 has 3 data rows, r2's file is
\* missing (readFileSync throws), r3 has a header line and no data row, r4
\* has one data row more than the sample getCsvSchema loads
FileTable ==
    [path \in {"/uploads/r1", "/uploads/r2", "/uploads/r3", "/uploads/r4"} |->
        CASE path = "/uploads/r1" ->
                [readable |-> TRUE, headers |-> <<"Region", "Amount">>, nrows |-> 3]
          [] path = "/uploads/r4" ->
                [readable |-> TRUE, headers |-> <<"Id">>,
                 nrows |-> SchemaSampleLimit + 1]
          [] path = "/uploads/r2" ->
                [readable |-> FALSE, headers |-> << >>, nrows |-> 0]
          [] OTHER ->
                [readable |-> TRUE, headers |-> << >>, nrows |-> 0]]

\* resourceService.getById: the row, or << >> for null
ResourceGetById(id) ==
    SelectSeq(resources, LAMBDA r : r.id = id)

\* resourceService.listBySession: orderBy createdAt desc
ResourceListBySession(sessionId) ==
    LET rows == SelectSeq(resources, LAMBDA r : r.sessionId = sessionId)
    IN  [i \in 1..Len(rows) |-> rows[Len(rows) + 1 - i]]

\* parseCsv(storedPath, { limit }): limit 0 stands for no limit (a falsy limit
\* is not applied); rows are counted, not stored
ParseCsv(storedPath, limit) ==
    LET f == files[storedPath]
        n == IF limit # 0 THEN Min(f.nrows, limit) ELSE f.nrows
    IN  IF ~f.readable
        THEN [ok |-> FALSE, headers |-> << >>, rows |-> 0, rowCount |-> 0]
        ELSE [ok |-> TRUE, headers |-> f.headers, rows |-> n, rowCount |-> n]

\* getCsvSchema: ok is FALSE when it throws
GetCsvSchema(resourceId) ==
    LET found == ResourceGetById(resourceId)
        data  == ParseCsv(found[1].storedPath, SchemaSampleLimit)
    IN  IF found = << >> \/ ~data.ok
        THEN [ok |-> FALSE, columns |-> << >>, rowCount |-> 0]
        ELSE [ok |-> TRUE, columns |-> data.headers, rowCount |-> data.rowCount]

\* a loadCsvMetadata that leaves out the resources whose schema fails
LoadCsvMetadataSkipsFailed(csvResources) ==
    LET loads == SelectSeq(csvResources, LAMBDA r : GetCsvSchema(r.id).ok)
    IN  [i \in 1..Len(loads) |->
            LET schema == GetCsvSchema(loads[i].id)
            IN  [id |-> loads[i].id, originalName |-> loads[i].originalName,
                 storedPath |-> loads[i].storedPath,
                 sizeBytes |-> loads[i].sizeBytes,
                 hasSchema |-> schema.ok,
                 columns |-> schema.columns, rowCount |-> schema.rowCount]]

\* loadCsvMetadata: one entry per resource, schema fields when it loads
LoadCsvMetadata(csvResources) ==
    [i \in 1..Len(csvResources) |->
        LET schema == GetCsvSchema(csvResources[i].id)
        IN  [id |-> csvResources[i].id, originalName |-> csvResources[i].originalName,
             storedPath |-> csvResources[i].storedPath,
             sizeBytes |-> csvResources[i].sizeBytes,
             hasSchema |-> schema.ok,
             columns |-> schema.columns, rowCount |-> schema.rowCount]]

\* r.originalName.toLowerCase().endsWith('.csv') of the stored names
NameEndsWithCsv(name) ==
    name \in {"sales.csv", "gone.CSV", "empty.csv", "big.csv", "up.csv", "upload.csv",
              "feed.csv"}

\* loadCsvMetadataNode: the session's CSV resources with their metadata
LoadCsvMetadataNodeResult(sessionId) ==
    LoadCsvMetadata(
        SelectSeq(ResourceListBySession(sessionId),
                  LAMBDA r : r.mimeType = "text/csv" \/ r.mimeType = "application/csv"
                             \/ NameEndsWithCsv(r.originalName)))

----------------------------------------------------------------------------
(* CsvAnalysisService.executeSqlQuery and the CSV tools *)

\* 'select'
SelectKeyword == <<"s", "e", "l", "e", "c", "t">>

\* "select 1": one result row whatever the table holds
QSelectOne == <<"s", "e", "l", "e", "c", "t", " ", "1">>

\* "  SELECT * FROM t\n": every row of the table
QSelectAll ==
    <<" ", " ", "S", "E", "L", "E", "C", "T", " ", "*", " ", "F", "R", "O", "M",
      " ", "t", "\n">>

\* "Select (": begins with select, not a statement SQLite can prepare
QSelectBroken == <<"S", "e", "l", "e", "c", "t", " ", "(">>

\* "DROP TABLE t"
QDrop == <<"D", "R", "O", "P", " ", "T", "A", "B", "L", "E", " ", "t">>

\* "delete from t; select 1": select is not the first word
QDeleteThenSelect ==
    <<"d", "e", "l", "e", "t", "e", " ", "f", "r", "o", "m", " ", "t", ";", " ",
      "s", "e", "l", "e", "c", "t", " ", "1">>

\* " selec": a prefix of the keyword
QSelec == <<" ", "s", "e", "l", "e", "c">>

\* "   ": blank
QBlank == <<" ", " ", " ">>

Queries ==
    {QSelectOne, QSelectAll, QSelectBroken, QDrop, QDeleteThenSelect, QSelec,
     QBlank, EmptyText}

\* executeSqlQuery: the query passes the only-SELECT check (includes: a check
\* that accepts the keyword anywhere in the query)
IsSelectQueryIncludes(sqlQuery) ==
    Includes(ToLowerCase(Trim(sqlQuery)), SelectKeyword)

\* executeSqlQuery: trimmedQuery.toLowerCase().startsWith('select')
IsSelectQuery(sqlQuery) ==
    StartsWith(ToLowerCase(Trim(sqlQuery)), SelectKeyword)

OnlySelectError ==
    "Only SELECT queries are allowed. DDL and DML operations are not permitted."

\* better-sqlite3 on the csv_data table of nrows rows: db.prepare(q).all()
SqlRun(sqlQuery, nrows) ==
    LET q == ToLowerCase(Trim(sqlQuery))
    IN  CASE q = QSelectOne -> [ok |-> TRUE, rowCount |-> 1]
          [] q = ToLowerCase(Trim(QSelectAll)) -> [ok |-> TRUE, rowCount |-> nrows]
          [] OTHER -> [ok |-> FALSE, rowCount |-> 0]

\* what a tool returns or throws: the content of its ToolMessage
NoResult ==
    [kind |-> "none", tool |-> "", success |-> FALSE, error |-> "",
     rows |-> 0, totalRows |-> 0]

ToolNotFound(name) ==
    [NoResult EXCEPT !.kind = "text", !.tool = name, !.error = "Tool not found"]

ToolInvokeError(name, msg) ==
    [NoResult EXCEPT !.kind = "text", !.tool = name,
                     !.error = "Error executing tool: " \o msg]

JsonFailure(name, msg) ==
    [NoResult EXCEPT !.kind = "json", !.tool = name, !.error = msg]

JsonSuccess(name, listed, total) ==
    [NoResult EXCEPT !.kind = "json", !.tool = name, !.success = TRUE,
                     !.rows = listed, !.totalRows = total]

\* the content reports a failure of the call
IsErrorResult(c) == c.kind # "none" /\ ~c.success /\ c.error # ""

\* csvTools: the tools bound to the model
ToolNames == {"load_csv_data", "execute_sql_query"}

\* toolCall.id is undefined
NoId == ""

\* `tool_call_${Date.now()}_${Math.random()}`: a fresh identifier, here made
\* unique by the position of the call in the response
GeneratedId(i) == "tool_call_generated_" \o ToString(i)

\* an identifier that ignores the request: every result gets the same one
ToolCallIdShared(toolCall, i) == GeneratedId(0)

\* agentNode: toolCall.id ?? `tool_call_...`
ToolCallId(toolCall, i) == IF toolCall.id = NoId THEN GeneratedId(i) ELSE toolCall.id

\* the zod schema of the tool accepts the arguments
ValidArgs(toolCall) ==
    IF toolCall.name = "execute_sql_query"
    THEN toolCall.args.hasResourceId /\ toolCall.args.hasSqlQuery
    ELSE toolCall.args.hasResourceId

\* a settled or pending promise of the round's Promise.all
Run(st, result, old) ==
    [st |-> st, result |-> result, loaded |-> old.loaded, opened |-> old.opened,
     executed |-> old.executed, closed |-> old.closed]

FreshRun ==
    [st |-> "invoking", result |-> NoResult, loaded |-> FALSE, opened |-> FALSE,
     executed |-> FALSE, closed |-> FALSE]

\* a catch that lets the error escape: the promise rejects
CatchToolErrorRethrow(name, msg, run) == Run("rejected", ToolInvokeError(name, msg), run)

\* agentNode: catch (error) { return new ToolMessage('Error executing tool: ...') }
CatchToolError(name, msg, run) == Run("resolved", ToolInvokeError(name, msg), run)

\* the tools' func: catch (error) { return JSON.stringify({ success: false, error }) }
CatchFuncError(name, msg, run) == Run("resolved", JsonFailure(name, msg), run)

\* agentNode's async mapper up to its first await: the tool is looked up
StartToolCall(toolCall) ==
    IF toolCall.name \notin ToolNames
    THEN Run("resolved", ToolNotFound(toolCall.name), FreshRun)
    ELSE FreshRun

\* tool.invoke(toolCall.args) up to the tool's first await: the arguments are
\* validated, then func runs; executeSqlQuery checks the query before it loads
ToolInvoke(toolCall, run) ==
    IF ~ValidArgs(toolCall)
    THEN CatchToolError(toolCall.name,
                        "Received tool input did not match expected schema", run)
    ELSE IF toolCall.name = "execute_sql_query" /\ ~IsSelectQuery(toolCall.args.sqlQuery)
    THEN CatchFuncError(toolCall.name, OnlySelectError, run)
    ELSE Run("loading", NoResult, run)

\* what may go wrong in the in-memory store before the query is run:
\* db.exec(createTableSql) or insertMany(data.rows) throws
StoreFaults == {"none", "create", "insert"}

\* a close that is the last statement of the try block: skipped by a throw
FinallyCloseOnSuccess(run, threw) == [run EXCEPT !.closed = ~threw]

\* executeSqlQuery: finally { db.close() }
FinallyClose(run, threw) == [run EXCEPT !.closed = TRUE]

\* executeSqlQuery after loadCsvData: the in-memory store is created, filled,
\* queried and closed; these statements are synchronous
ExecuteSqlQueryOnData(toolCall, data, run, fault) ==
    IF data.rows = 0
    THEN Run("resolved", JsonSuccess(toolCall.name, 0, 0), run)
    ELSE LET r     == SqlRun(toolCall.args.sqlQuery, data.rows)
             threw == fault # "none" \/ ~r.ok
             used  == FinallyClose([run EXCEPT !.opened = TRUE,
                                               !.executed = (fault = "none")],
                                   threw)
         IN  IF ~threw
             THEN Run("resolved",
                      JsonSuccess(toolCall.name, Min(r.rowCount, MaxSqlRows), r.rowCount),
                      used)
             ELSE CatchFuncError(toolCall.name, "SQL query execution failed", used)

\* the limit the tool hands to loadCsvData: load_csv_data passes its limit
\* argument (0: none given), execute_sql_query passes no option
LoadLimit(toolCall) ==
    IF toolCall.name = "load_csv_data" THEN toolCall.args.limit ELSE 0

\* the rest of func: loadCsvData(resourceId, options), then the tool's own work
ToolLoad(toolCall, run, fault) ==
    LET found  == ResourceGetById(toolCall.args.resourceId)
        data   == ParseCsv(found[1].storedPath, LoadLimit(toolCall))
        loaded == [run EXCEPT !.loaded = TRUE]
    IN  IF found = << >>
        THEN CatchFuncError(toolCall.name, "Resource not found", run)
        ELSE IF ~data.ok
        THEN CatchFuncError(toolCall.name, "ENOENT: no such file or directory", loaded)
        ELSE IF toolCall.name = "execute_sql_query"
        THEN ExecuteSqlQueryOnData(toolCall, data, loaded, fault)
        ELSE Run("resolved",
                 JsonSuccess(toolCall.name, Min(data.rows, SampleRows), data.rowCount),
                 loaded)

----------------------------------------------------------------------------
(* Messages *)

\* a LangChain message: SystemMessage, HumanMessage, AIMessage or ToolMessage
Message(type, content, images, tool_calls, tool_call_id, result) ==
    [type |-> type, content |-> content, images |-> images,
     tool_calls |-> tool_calls, tool_call_id |-> tool_call_id, result |-> result]

SystemMessage(content) == Message("system", content, << >>, << >>, NoId, NoResult)

HumanMessage(content, images) == Message("human", content, images, << >>, NoId, NoResult)

AIMessage(content, tool_calls) == Message("ai", content, << >>, tool_calls, NoId, NoResult)

ToolMessage(result, tool_call_id) ==
    Message("tool", EmptyText, << >>, << >>, tool_call_id, result)

\* buildSystemPrompt: the text lists the resources it is given
BuildSystemPrompt(csvResourcesMetadata) ==
    <<"You are a helpful AI assistant">>
        \o [i \in 1..Len(csvResourcesMetadata) |-> csvResourcesMetadata[i].id]

\* 'Please analyze the image(s) I uploaded.'
DefaultImageText == <<"Please analyze the image(s) I uploaded.">>

\* agentNode: a message of state.messages as a LangChain message
ToLangChain(msg) ==
    CASE msg.role = "user" -> HumanMessage(msg.content, msg.images)
      [] msg.role = "assistant" -> AIMessage(msg.content, << >>)
      [] OTHER -> SystemMessage(msg.content)

\* agentNode: the HumanMessage of the current query
CurrentQueryMessage(st) ==
    IF Len(st.currentQueryImages) > 0
    THEN HumanMessage(IF Trim(st.currentQuery) # EmptyText
                      THEN Trim(st.currentQuery) ELSE DefaultImageText,
                      st.currentQueryImages)
    ELSE HumanMessage(st.currentQuery, << >>)

\* agentNode: langchainMessages
LangchainMessages(st) ==
    <<SystemMessage(BuildSystemPrompt(st.csvResourcesMetadata))>>
        \o [i \in 1..Len(st.messages) |-> ToLangChain(st.messages[i])]
        \o <<CurrentQueryMessage(st)>>

\* message-service: hasToolCalls
HasToolCalls(message) == Len(message.tool_calls) > 0

\* message-service: getMessageType
GetMessageType(message) == IF message.type = "human" THEN "user" ELSE "assistant"

\* messageService.listBySession: the user and assistant turns of the
\* checkpointed thread without tool calls
ListBySession(sessionId) ==
    LET kept == SelectSeq(checkpoints[sessionId],
                          LAMBDA m : m.type \in {"human", "ai"} /\ ~HasToolCalls(m))
    IN  [i \in 1..Len(kept) |->
            [sessionId |-> sessionId, role |-> GetMessageType(kept[i]),
             content |-> kept[i].content,
             images |-> IF GetMessageType(kept[i]) = "user"
                        THEN kept[i].images ELSE << >>]]

\* a read of the checkpoint whose failure escapes listBySession
CheckpointReadThrows(sessionId, readFails) ==
    [ok |-> ~readFails,
     history |-> IF readFails THEN << >> ELSE ListBySession(sessionId)]

\* messageService.listBySession with its try/catch: a failing
\* checkpointer.get is logged and the empty list returned
CheckpointRead(sessionId, readFails) ==
    [ok |-> TRUE,
     history |-> IF readFails THEN << >> ELSE ListBySession(sessionId)]

\* streamAgent: history.map(...)
InitialMessages(history) ==
    [i \in 1..Len(history) |->
        [role |-> history[i].role, content |-> history[i].content,
         images |-> history[i].images]]

\* streamAgent: the messages of the initial state when the checkpoint is read
HistoryMessages(sessionId) == InitialMessages(ListBySession(sessionId))

\* a row of the prisma Message table
MessageRow(sessionId, role, content, images) ==
    [sessionId |-> sessionId, role |-> role, content |-> content, images |-> images]

\* messageService.create: the row is inserted
MessageServiceCreate(db, sessionId, role, content, images) ==
    Append(db, MessageRow(sessionId, role, content, images))

----------------------------------------------------------------------------
(* The chat model: a stub that answers every invocation either with its tool
   response (toolContent and tool_calls) or with its final response
   (finalContent), delivered as its mode says *)

Args(resourceId, sqlQuery) ==
    [resourceId |-> resourceId, hasResourceId |-> TRUE,
     sqlQuery |-> sqlQuery, hasSqlQuery |-> TRUE, limit |-> 0]

ToolCall(name, id, args) == [name |-> name, id |-> id, args |-> args]

DefaultCall == ToolCall("execute_sql_query", "call_1", Args("r1", QSelectOne))

\* the kinds of request a response of several tool calls is made of
CallKinds ==
    { ToolCall("delete_rows", "id", Args("r1", QDrop)),
      ToolCall("execute_sql_query", "id",
               [Args("r1", EmptyText) EXCEPT !.hasSqlQuery = FALSE]),
      ToolCall("execute_sql_query", "id", Args("r1", QDrop)),
      ToolCall("execute_sql_query", "id", Args("r1", QSelectAll)),
      ToolCall("load_csv_data", NoId, Args("r1", EmptyText)),
      ToolCall("load_csv_data", "id", Args("r2", EmptyText)) }

\* the calls of a response get the identifiers call_1, call_2, ... unless the
\* kind has none
WithIds(calls) ==
    [i \in 1..Len(calls) |->
        IF calls[i].id = NoId THEN calls[i]
        ELSE [calls[i] EXCEPT !.id = "call_" \o ToString(i)]]

CallLists ==
    { WithIds(calls) : calls \in UNION { [1..n -> CallKinds] : n \in 1..MaxToolCalls } }

\* one execute_sql_query call for every query and resource
QueryCallLists ==
    { <<ToolCall("execute_sql_query", "call_1", Args(r, q))>> :
        r \in {"r1", "r3", "r4", "r9"}, q \in Queries }

\* the limits a load_csv_data call is given: none, fewer rows than the
\* resource has, more rows than it has
LoadLimits == {0, 2, 2 * SampleRows}

\* one load_csv_data call for every limit, for a small and a large resource
LimitCallLists ==
    { <<ToolCall("load_csv_data", "call_1",
                 [Args(r, EmptyText) EXCEPT !.limit = n])>> :
        r \in {"r1", "r4"}, n \in LoadLimits }

\* stream: every character is a token chunk; blob: the text arrives only with
\* on_chat_model_end; partial: the last character is not streamed
Modes == {"stream", "blob", "partial"}

Stub(toolContent, finalContent, tool_calls, mode) ==
    [toolContent |-> toolContent, finalContent |-> finalContent,
     tool_calls |-> tool_calls, mode |-> mode]

DefaultStub == Stub(<<"a">>, <<"b">>, <<DefaultCall>>, "stream")

LlmStubs ==
    { Stub(t, f, <<DefaultCall>>, m) : t \in Texts, f \in Texts, m \in Modes }
    \cup { Stub(<<"a">>, <<"b">>, c, "stream") : c \in CallLists \cup QueryCallLists \cup LimitCallLists }

\* the number of characters of a response that are streamed as chunks
StreamedLen(mode, content) ==
    CASE mode = "stream" -> Len(content)
      [] mode = "partial" -> IF Len(content) = 0 THEN 0 ELSE Len(content) - 1
      [] OTHER -> 0

Event(name, content) == [event |-> name, content |-> content]

\* the events streamEvents emits for one model call: a chunk per streamed
\* character, a chunk without text for the tool calls of a streamed response,
\* and the end event with the whole message
ModelEvents(mode, response) ==
    LET n == StreamedLen(mode, response.content)
    IN  [i \in 1..n |-> Event("on_chat_model_stream", <<response.content[i]>>)]
        \o (IF mode # "blob" /\ Len(response.tool_calls) > 0
            THEN <<Event("on_chat_model_stream", EmptyText)>> ELSE << >>)
        \o <<Event("on_chat_model_end", response.content)>>

----------------------------------------------------------------------------
(* The requests *)

UserMessages == {<<"q">>, <<" ">>, EmptyText}

ImageLists == {<< >>, <<"img1">>}

Request(sessionId, userMessage, images) ==
    [sessionId |-> sessionId, userMessage |-> userMessage, images |-> images]

DefaultRequest == Request("s1", <<"q">>, << >>)

Requests ==
    { Request(s, u, i) : s \in SessionIds, u \in UserMessages, i \in ImageLists }

\* the requests the model explores with the stub: every request with the
\* default stub, the default request with every stub
RequestExplored(req) == req = DefaultRequest \/ llm = DefaultStub

----------------------------------------------------------------------------
(* Initial state *)

EmptyState ==
    [sessionId |-> "", messages |-> << >>, csvResourcesMetadata |-> << >>,
     currentQuery |-> EmptyText, currentQueryImages |-> << >>]

\* the thread a former execution checkpointed for s1
PriorThread ==
    << HumanMessage(<<"h">>, <<"img0">>),
       AIMessage(EmptyText, <<DefaultCall>>),
       ToolMessage(JsonSuccess("execute_sql_query", 1, 1), "call_1"),
       AIMessage(<<"a">>, << >>) >>

\* no service call has been made
NoCall == [op |-> "none"]

EmptyTrace ==
    [invokes |-> 0, toolRounds |-> 0, historyLoads |-> 0, graphRuns |-> 0,
     texts |-> << >>, dbBefore |-> << >>, request |-> DefaultRequest,
     readFailed |-> FALSE, userTurnAdded |-> << >>, settled |-> << >>]

Init ==
    /\ sessions = {"s1", "s3"}
    /\ dbMessages = << >>
    /\ checkpoints = [s \in SessionIds |-> IF s = "s1" THEN PriorThread ELSE << >>]
    /\ apiKey \in BOOLEAN
    /\ llm \in LlmStubs
    /\ pc = "idle"
    /\ gen = "idle"
    /\ error = ""
    /\ state = EmptyState
    /\ messages = << >>
    /\ iteration = 0
    /\ responseContent = EmptyText
    /\ toolRuns = << >>
    /\ events = << >>
    /\ accumulatedContent = EmptyText
    /\ yielded = << >>
    /\ frames = << >>
    /\ trace = EmptyTrace
    /\ call = NoCall
    /\ resources = ResourceTable
    /\ files = FileTable
    /\ executions = << >>

----------------------------------------------------------------------------
(* streamAgent up to the start of the graph *)

Frame(type, content, message) == [type |-> type, content |-> content, error |-> message]

\* a catch block that goes on to the end marker after the error frame
RouteCatchThenDone(message) ==
    <<Frame("error", EmptyText, message), Frame("done", EmptyText, "")>>

\* stream route, catch (error): one error frame is enqueued and the stream closed
RouteCatch(message) == <<Frame("error", EmptyText, message)>>

\* a session check that passes for every id
SessionExistsAlways(sessionId) == TRUE

\* sessionService.getById(sessionId) is not null
SessionExists(sessionId) == sessionId \in sessions

\* streamAgent is called and its consumer asks for the first fragment:
\* the session is validated
ValidateSession(req) ==
    /\ pc = "idle"
    /\ RequestExplored(req)
    /\ trace' = [trace EXCEPT !.request = req, !.dbBefore = dbMessages]
    /\ IF SessionExists(req.sessionId)
       THEN /\ pc' = "loadHistory"
            /\ gen' = "running"
            /\ UNCHANGED <<error, frames>>
       ELSE /\ pc' = "failed"
            /\ gen' = "threw"
            /\ error' = "Session not found"
            /\ frames' = frames \o RouteCatch("Session not found")
    /\ UNCHANGED <<resources, files, executions>>
    /\ UNCHANGED <<call, sessions, dbMessages, checkpoints, apiKey, llm, state, messages,
                   iteration, responseContent, toolRuns, events, accumulatedContent,
                   yielded>>

\* streamAgent: the history is loaded and the initial state built; the read
\* of the checkpoint may fail (explored with the default stub)
LoadHistory(readFails) ==
    /\ pc = "loadHistory"
    /\ readFails => llm = DefaultStub
    /\ LET read == CheckpointRead(trace.request.sessionId, readFails)
       IN  IF read.ok
           THEN /\ state' = [sessionId |-> trace.request.sessionId,
                             messages |-> InitialMessages(read.history),
                             csvResourcesMetadata |-> << >>,
                             currentQuery |-> trace.request.userMessage,
                             currentQueryImages |-> trace.request.images]
                /\ pc' = "createUser"
                /\ UNCHANGED <<gen, error, frames>>
           ELSE /\ pc' = "failed"
                /\ gen' = "threw"
                /\ error' = "checkpoint read failed"
                /\ frames' = frames \o RouteCatch("checkpoint read failed")
                /\ state' = state
    /\ trace' = [trace EXCEPT !.historyLoads = @ + 1, !.readFailed = readFails]
    /\ UNCHANGED <<resources, files, executions>>
    /\ UNCHANGED <<call, sessions, dbMessages, checkpoints, apiKey, llm, messages,
                   iteration, responseContent, toolRuns, events, accumulatedContent,
                   yielded>>

\* streamAgent: the user message is created, then the graph is started
CreateUserMessage ==
    /\ pc = "createUser"
    /\ dbMessages' = MessageServiceCreate(dbMessages, state.sessionId, "user",
                                          trace.request.userMessage,
                                          trace.request.images)
    /\ trace' = [trace EXCEPT !.graphRuns = @ + 1]
    /\ pc' = "loadCsvMetadata"
    /\ UNCHANGED <<resources, files, executions>>
    /\ UNCHANGED <<call, sessions, checkpoints, apiKey, llm, gen, error, state, messages,
                   iteration, responseContent, toolRuns, events, accumulatedContent,
                   yielded, frames>>

----------------------------------------------------------------------------
(* The graph: loadCsvMetadata -> agent -> saveMessage.  A node runs when the
   consumer has handled the events produced so far, or has stopped consuming:
   the handler reads nothing but the events, in their order. *)

EventsDrained == events = << >>

LoadCsvMetadataNode ==
    /\ pc = "loadCsvMetadata"
    /\ EventsDrained
    /\ state' = [state EXCEPT
                    !.csvResourcesMetadata = LoadCsvMetadataNodeResult(state.sessionId)]
    /\ pc' = "agent"
    /\ UNCHANGED <<resources, files, executions>>
    /\ UNCHANGED <<call, sessions, dbMessages, checkpoints, apiKey, llm, gen, error, messages,
                   iteration, responseContent, toolRuns, events, accumulatedContent,
                   yielded, frames, trace>>

\* a loop that runs one iteration more
LoopContinuesOffByOne(i) == i <= maxIterations

\* agentNode: while (iteration < maxIterations)
LoopContinues(i) == i < maxIterations

\* agentNode up to its first llm.invoke: the credential is checked and the
\* message array built
AgentStart ==
    /\ pc = "agent"
    /\ EventsDrained
    /\ IF ~apiKey
       THEN /\ pc' = "graphFailed"
            /\ error' = "GOOGLE_API_KEY or LLM_API_KEY environment variable is required"
            /\ UNCHANGED <<messages, iteration, responseContent>>
       ELSE /\ messages' = LangchainMessages(state)
            /\ responseContent' = EmptyText
            /\ iteration' = 0
            /\ pc' = IF LoopContinues(0) THEN "invoke" ELSE "finish"
            /\ error' = error
    /\ UNCHANGED <<resources, files, executions>>
    /\ UNCHANGED <<call, sessions, dbMessages, checkpoints, apiKey, llm, gen, state, toolRuns,
                   events, accumulatedContent, yielded, frames, trace>>

\* the events of a model call reach the consumer unless it stopped consuming
Emit(response) == IF gen = "stopped" THEN << >> ELSE ModelEvents(llm.mode, response)

\* llm.invoke(messages) throws
LlmThrows ==
    /\ pc = "invoke"
    /\ EventsDrained
    /\ pc' = "graphFailed"
    /\ error' = "model invocation failed"
    /\ trace' = [trace EXCEPT !.invokes = @ + 1]
    /\ UNCHANGED <<resources, files, executions>>
    /\ UNCHANGED <<call, sessions, dbMessages, checkpoints, apiKey, llm, gen, state, messages,
                   iteration, responseContent, toolRuns, events, accumulatedContent,
                   yielded, frames>>

\* llm.invoke(messages) answers with tool calls: the response is pushed and
\* every tool call is started
LlmRequestsTools ==
    /\ pc = "invoke"
    /\ EventsDrained
    /\ LET response == AIMessage(llm.toolContent, llm.tool_calls)
       IN  /\ messages' = Append(messages, response)
           /\ events' = Emit(response)
           /\ toolRuns' = [i \in 1..Len(response.tool_calls) |->
                               StartToolCall(response.tool_calls[i])]
           /\ trace' = [trace EXCEPT
                  !.invokes = @ + 1,
                  !.texts = Append(@, response.content),
                  !.settled = SelectSeq([i \in 1..Len(response.tool_calls) |-> i],
                                        LAMBDA i : toolRuns'[i].st = "resolved")]
    /\ pc' = "tools"
    /\ UNCHANGED <<resources, files, executions>>
    /\ UNCHANGED <<call, sessions, dbMessages, checkpoints, apiKey, llm, gen, error, state,
                   iteration, responseContent, accumulatedContent, yielded, frames>>

\* llm.invoke(messages) answers without tool calls: the final response
LlmAnswers ==
    /\ pc = "invoke"
    /\ EventsDrained
    /\ LET response == AIMessage(llm.finalContent, << >>)
       IN  /\ messages' = Append(messages, response)
           /\ events' = Emit(response)
           /\ responseContent' = response.content
           /\ trace' = [trace EXCEPT !.invokes = @ + 1,
                                     !.texts = Append(@, response.content)]
    /\ pc' = "finish"
    /\ UNCHANGED <<resources, files, executions>>
    /\ UNCHANGED <<call, sessions, dbMessages, checkpoints, apiKey, llm, gen, error, state,
                   iteration, toolRuns, accumulatedContent, yielded, frames>>

\* the tool calls of the response being executed
CurrentCalls == messages[Len(messages)].tool_calls

\* the orders of completion the model explores: every order in the first
\* round, the order of the requests in the later rounds
OrderExplored(i) ==
    iteration = 0 \/ \A j \in 1..(i - 1) : toolRuns[j].st \in {"resolved", "rejected"}

\* a started tool call validates its arguments and runs to its first await
ToolInvokeStep(i) ==
    /\ pc = "tools"
    /\ EventsDrained
    /\ i \in DOMAIN toolRuns
    /\ OrderExplored(i)
    /\ toolRuns[i].st = "invoking"
    /\ toolRuns' = [toolRuns EXCEPT ![i] = ToolInvoke(CurrentCalls[i], @)]
    /\ trace' = [trace EXCEPT !.settled = IF toolRuns'[i].st = "loading" THEN @
                                          ELSE Append(@, i)]
    /\ UNCHANGED <<resources, files, executions>>
    /\ UNCHANGED <<call, sessions, dbMessages, checkpoints, apiKey, llm, pc, gen, error, state,
                   messages, iteration, responseContent, events, accumulatedContent,
                   yielded, frames>>

\* the stubs that differ from the default stub in their tool calls only
DefaultTexts(stub) ==
    /\ stub.toolContent = DefaultStub.toolContent
    /\ stub.finalContent = DefaultStub.finalContent
    /\ stub.mode = DefaultStub.mode

\* the store faults the model explores: those of the first round, with the
\* stubs of the default texts
FaultExplored(fault) == fault = "none" \/ (iteration = 0 /\ DefaultTexts(llm))

\* a tool call loads its resource and completes; its store may fail
ToolLoadStep(i, fault) ==
    /\ pc = "tools"
    /\ FaultExplored(fault)
    /\ EventsDrained
    /\ i \in DOMAIN toolRuns
    /\ OrderExplored(i)
    /\ toolRuns[i].st = "loading"
    /\ toolRuns' = [toolRuns EXCEPT ![i] = ToolLoad(CurrentCalls[i], @, fault)]
    /\ trace' = [trace EXCEPT !.settled = Append(@, i)]
    /\ UNCHANGED <<resources, files, executions>>
    /\ UNCHANGED <<call, sessions, dbMessages, checkpoints, apiKey, llm, pc, gen, error, state,
                   messages, iteration, responseContent, events, accumulatedContent,
                   yielded, frames>>

\* the ToolMessage of a settled call
ToolResultMessage(toolCall, i, run) == ToolMessage(run.result, ToolCallId(toolCall, i))

\* results taken in the order in which the promises settled
PromiseAllAsSettled(settled) == settled

\* Promise.all: the positions of the results are those of the promises it
\* was given, whatever the order in which they settled
PromiseAll(settled) == [k \in 1..Len(settled) |-> k]

\* Promise.all settles: the results are pushed in the order of the requests
\* and the loop goes on, or the first rejection is thrown
ToolsDone ==
    /\ pc = "tools"
    /\ EventsDrained
    /\ \A i \in DOMAIN toolRuns : toolRuns[i].st \in {"resolved", "rejected"}
    /\ IF \E i \in DOMAIN toolRuns : toolRuns[i].st = "rejected"
       THEN /\ pc' = "graphFailed"
            /\ error' = "tool call rejected"
            /\ UNCHANGED <<messages, iteration, trace>>
       ELSE /\ LET toolResults == PromiseAll(trace.settled)
                IN  messages' = messages \o
                        [k \in 1..Len(toolResults) |->
                            ToolResultMessage(CurrentCalls[toolResults[k]],
                                              toolResults[k], toolRuns[toolResults[k]])]
            /\ iteration' = iteration + 1
            /\ trace' = [trace EXCEPT !.toolRounds = @ + 1]
            /\ pc' = IF LoopContinues(iteration + 1) THEN "invoke" ELSE "finish"
            /\ error' = error
    /\ UNCHANGED <<resources, files, executions>>
    /\ UNCHANGED <<call, sessions, dbMessages, checkpoints, apiKey, llm, gen, state,
                   responseContent, toolRuns, events, accumulatedContent, yielded,
                   frames>>

\* agentNode after the loop: "If we hit max iterations, use the last response"
FinalResponseContent(msgs, iter, content) ==
    IF iter >= maxIterations /\ Len(msgs) > 0 /\ msgs[Len(msgs)].type = "ai"
    THEN msgs[Len(msgs)].content
    ELSE content

\* agentNode: the user message and the assistant response it returns
AgentNewMessages(st, content) ==
    st.messages \o
        << [role |-> "user", content |-> st.currentQuery,
            images |-> st.currentQueryImages],
           [role |-> "assistant", content |-> content, images |-> << >>] >>

\* agentNode returns: state.messages is replaced (reducer y ?? x)
AgentFinish ==
    /\ pc = "finish"
    /\ EventsDrained
    /\ responseContent' = FinalResponseContent(messages, iteration, responseContent)
    /\ state' = [state EXCEPT !.messages = AgentNewMessages(state, responseContent')]
    /\ pc' = "saveMessage"
    /\ UNCHANGED <<resources, files, executions>>
    /\ UNCHANGED <<call, sessions, dbMessages, checkpoints, apiKey, llm, gen, error, messages,
                   iteration, toolRuns, events, accumulatedContent, yielded, frames,
                   trace>>

\* prisma.message.findFirst({ where: { sessionId, role, content } }) finds a row
MessageExists(db, sessionId, msg) ==
    \E k \in 1..Len(db) :
        /\ db[k].sessionId = sessionId
        /\ db[k].role = msg.role
        /\ db[k].content = msg.content

\* state.messages.slice(-2)
LastTwo(msgs) == IF Len(msgs) <= 2 THEN msgs ELSE SubSeq(msgs, Len(msgs) - 1, Len(msgs))

RECURSIVE SaveMessages(_, _, _, _, _)
\* saveMessageNode's loop from the k-th message on: a message that is not found
\* is created; failAt names the message whose create throws (0: none)
SaveMessages(db, sessionId, toSave, k, failAt) ==
    IF k > Len(toSave) THEN [db |-> db, ok |-> TRUE]
    ELSE IF MessageExists(db, sessionId, toSave[k])
    THEN SaveMessages(db, sessionId, toSave, k + 1, failAt)
    ELSE IF failAt = k THEN [db |-> db, ok |-> FALSE]
    ELSE SaveMessages(
            Append(db, MessageRow(sessionId, toSave[k].role, toSave[k].content,
                                  toSave[k].images)),
            sessionId, toSave, k + 1, failAt)

\* a catch block that logs the error and lets the node end normally
SaveMessageCatchSwallows(ok) == "graphEnd"

\* saveMessageNode: return {} at the end of the try, throw error in the catch
SaveMessageCatch(ok) == IF ok THEN "graphEnd" ELSE "graphFailed"

\* saveMessageNode: the last two messages are saved and the session touched;
\* the database may fail at any of its writes, and the error is rethrown
SaveMessageNode(failAt) ==
    /\ pc = "saveMessage"
    /\ EventsDrained
    /\ LET toSave == LastTwo(state.messages)
           saved  == SaveMessages(dbMessages, state.sessionId, toSave, 1, failAt)
           ok     == saved.ok /\ failAt # Len(toSave) + 1 /\ SessionExists(state.sessionId)
       IN  /\ dbMessages' = saved.db
           /\ pc' = SaveMessageCatch(ok)
           /\ error' = IF ok THEN error ELSE "database write failed"
    /\ UNCHANGED <<resources, files, executions>>
    /\ UNCHANGED <<call, sessions, checkpoints, apiKey, llm, gen, state, messages, iteration,
                   responseContent, toolRuns, events, accumulatedContent, yielded,
                   frames, trace>>

----------------------------------------------------------------------------
(* streamAgent's event loop and its consumer, the stream route *)

\* the body of the for-await loop for one event: the new accumulatedContent
\* and the fragments it yields (none or one)
OnEvent(e, accumulated) ==
    IF e.event = "on_chat_model_stream"
    THEN IF e.content # EmptyText
         THEN [accumulated |-> accumulated \o e.content, out |-> <<e.content>>]
         ELSE [accumulated |-> accumulated, out |-> << >>]
    ELSE IF e.content # EmptyText /\ e.content # accumulated
              /\ Slice(e.content, Len(accumulated)) # EmptyText
         THEN [accumulated |-> e.content,
               out |-> <<Slice(e.content, Len(accumulated))>>]
         ELSE [accumulated |-> accumulated, out |-> << >>]

Consuming == gen \in {"running", "suspended"}

\* the consumer asks for the next fragment and the loop handles one event;
\* the route enqueues a content frame for the fragment it gets
HandleEvent ==
    /\ Consuming
    /\ events # << >>
    /\ LET r == OnEvent(Head(events), accumulatedContent)
       IN  /\ accumulatedContent' = r.accumulated
           /\ yielded' = yielded \o r.out
           /\ frames' = frames \o
                  [i \in 1..Len(r.out) |-> Frame("content", r.out[i], "")]
           /\ gen' = IF r.out # << >> THEN "suspended" ELSE "running"
    /\ events' = Tail(events)
    /\ UNCHANGED <<resources, files, executions>>
    /\ UNCHANGED <<call, sessions, dbMessages, checkpoints, apiKey, llm, pc, error, state,
                   messages, iteration, responseContent, toolRuns, trace>>

\* the graph has ended: the loop ends and the generator returns; the route
\* enqueues [DONE]
StreamEnd ==
    /\ pc = "graphEnd"
    /\ EventsDrained
    /\ pc' = "done"
    /\ IF Consuming
       THEN /\ gen' = "returned"
            /\ frames' = Append(frames, Frame("done", EmptyText, ""))
       ELSE UNCHANGED <<gen, frames>>
    /\ UNCHANGED <<resources, files, executions>>
    /\ UNCHANGED <<call, sessions, dbMessages, checkpoints, apiKey, llm, error, state, messages,
                   iteration, responseContent, toolRuns, events, accumulatedContent,
                   yielded, trace>>

\* the graph has raised: the event stream raises in the for-await loop, which
\* has no handler, so the generator raises; the route enqueues an error frame
StreamThrows ==
    /\ pc = "graphFailed"
    /\ EventsDrained
    /\ pc' = "failed"
    /\ IF Consuming
       THEN /\ gen' = "threw"
            /\ frames' = frames \o RouteCatch(error)
       ELSE UNCHANGED <<gen, frames>>
    /\ UNCHANGED <<resources, files, executions>>
    /\ UNCHANGED <<call, sessions, dbMessages, checkpoints, apiKey, llm, error, state, messages,
                   iteration, responseContent, toolRuns, events, accumulatedContent,
                   yielded, trace>>

\* the consumer stops consuming after a fragment: the generator is closed.
\* Whether the graph run is abandoned with it or runs on depends on the
\* event stream; both happen
ConsumerStop(abandon) ==
    /\ gen = "suspended"
    /\ pc \notin {"done", "failed"}
    /\ gen' = "stopped"
    /\ events' = << >>
    /\ pc' = IF abandon THEN "cancelled" ELSE pc
    /\ UNCHANGED <<resources, files, executions>>
    /\ UNCHANGED <<call, sessions, dbMessages, checkpoints, apiKey, llm, error, state, messages,
                   iteration, responseContent, toolRuns, accumulatedContent, yielded,
                   frames, trace>>

----------------------------------------------------------------------------

Next ==
    \/ \E req \in Requests : ValidateSession(req)
    \/ \E readFails \in BOOLEAN : LoadHistory(readFails)
    \/ CreateUserMessage
    \/ LoadCsvMetadataNode
    \/ AgentStart
    \/ LlmThrows
    \/ LlmRequestsTools
    \/ LlmAnswers
    \/ \E i \in 1..(MaxToolCalls + 1) : ToolInvokeStep(i)
    \/ \E i \in 1..(MaxToolCalls + 1), fault \in StoreFaults : ToolLoadStep(i, fault)
    \/ ToolsDone
    \/ AgentFinish
    \/ \E failAt \in 0..3 : SaveMessageNode(failAt)
    \/ HandleEvent
    \/ StreamEnd
    \/ StreamThrows
    \/ \E abandon \in BOOLEAN : ConsumerStop(abandon)

Spec == Init /\ [][Next]_vars

----------------------------------------------------------------------------
(* The services called outside an execution: CsvAnalysisService.filterData,
   SessionService.delete and MessageService.listBySession *)

\* a row of a parsed CSV file with the columns a and b
DataRows == [a : 0..1, b : 0..1]

\* ParsedCsvData values of up to MaxRows rows
DataSets ==
    { [headers |-> <<"a", "b">>, rows |-> rows, rowCount |-> Len(rows)] :
        rows \in UNION { [1..n -> DataRows] : n \in 0..MaxRows } }

Filter(column, operator, value) ==
    [column |-> column, operator |-> operator, value |-> value]

\* the filters the lists are made of: every operator but regex, an operator
\* outside the type and a column the rows do not have
FilterPool ==
    { Filter("a", "eq", 1), Filter("a", "gt", 0), Filter("b", "lt", 1),
      Filter("b", "gte", 1), Filter("a", "lte", 0), Filter("b", "contains", 0),
      Filter("a", "between", 1), Filter("zz", "eq", 1) }

FilterLists == UNION { [1..n -> FilterPool] : n \in 0..MaxFilters }

\* the callback of filters.every: the switch on filter.operator; a missing
\* column reads as undefined, which no comparison accepts
FilterAccepts(row, filter) ==
    /\ filter.column \in DOMAIN row
    /\ LET value == row[filter.column]
       IN  CASE filter.operator = "eq" -> value = filter.value
             [] filter.operator = "gt" -> value > filter.value
             [] filter.operator = "lt" -> value < filter.value
             [] filter.operator = "gte" -> value >= filter.value
             [] filter.operator = "lte" -> value <= filter.value
             [] filter.operator = "contains" -> value = filter.value
             [] OTHER -> FALSE

\* a row filter that keeps the rows some filter accepts
RowPassesSome(row, filters) ==
    \E k \in 1..Len(filters) : FilterAccepts(row, filters[k])

\* filterData: filters.every(...)
RowPasses(row, filters) ==
    \A k \in 1..Len(filters) : FilterAccepts(row, filters[k])

\* filterData: data.rows.filter(...) with the headers of the input
FilterData(data, filters) ==
    LET filteredRows == SelectSeq(data.rows, LAMBDA row : RowPasses(row, filters))
    IN  [headers |-> data.headers, rows |-> filteredRows,
         rowCount |-> Len(filteredRows)]

\* csvAnalysisService.filterData(data, filters) is called, for every data
\* and filter list
FilterDataCall ==
    /\ call = NoCall
    /\ checkpoints["s1"] = PriorThread
    /\ \E data \in DataSets, filters \in FilterLists :
           call' = [op |-> "filterData", data |-> data, filters |-> filters,
                    result |-> FilterData(data, filters)]
    /\ UNCHANGED <<resources, files, executions>>
    /\ UNCHANGED <<sessions, dbMessages, checkpoints, apiKey, llm, pc, gen, error,
                   state, messages, iteration, responseContent, toolRuns, events,
                   accumulatedContent, yielded, frames, trace>>

\* getCsvSchema: !isNaN(Number(sampleValue)) && isFinite(Number(sampleValue))
\* for the cell values "7", "x" and "Infinity"
IsFiniteNumber(sampleValue) == sampleValue = "7"

\* getCsvSchema: numericColumns and textColumns of the parsed sample; every
\* header is classified by its value in data.rows[0]
ColumnTypes(data) ==
    LET classified == IF Len(data.rows) > 0
                      THEN SelectSeq(data.headers,
                                     LAMBDA header : data.rows[1][header] # "")
                      ELSE << >>
    IN  [numericColumns |->
             SelectSeq(classified, LAMBDA header : IsFiniteNumber(data.rows[1][header])),
         textColumns |->
             SelectSeq(classified, LAMBDA header : ~IsFiniteNumber(data.rows[1][header]))]

\* csvAnalysisService.getCsvSchema is called on a resource whose parsed
\* sample is data, for every sample of up to MaxRows rows
GetCsvSchemaCall ==
    /\ call = NoCall
    /\ checkpoints["s1"] = PriorThread
    /\ \E n \in 0..MaxRows :
         \E rows \in [1..n -> [a : {"", "7", "x", "Infinity"}, b : {"", "7", "x"}]] :
           LET data == [headers |-> <<"a", "b">>, rows |-> rows, rowCount |-> n]
           IN  call' = [op |-> "getCsvSchema", data |-> data,
                        result |-> ColumnTypes(data)]
    /\ UNCHANGED <<resources, files, executions>>
    /\ UNCHANGED <<sessions, dbMessages, checkpoints, apiKey, llm, pc, gen, error,
                   state, messages, iteration, responseContent, toolRuns, events,
                   accumulatedContent, yielded, frames, trace>>

\* a delete that fails when the checkpoint thread cannot be deleted
SessionDeleteResultRethrows(id, threadDeleted) ==
    [ok |-> threadDeleted, session |-> id, error |-> "deleteThread failed"]

\* sessionService.delete after prisma.session.delete: the try/catch around
\* checkpointer.deleteThread logs the error, and deletedSession is returned
SessionDeleteResult(id, threadDeleted) ==
    [ok |-> TRUE, session |-> id, error |-> ""]

\* sessionService.delete(id) is called; the Resource rows of the session are
\* deleted with it (ON DELETE CASCADE); checkpointer.deleteThread may throw
SessionDelete(id, threadFails) ==
    /\ call = NoCall
    /\ IF id = ""
       THEN /\ call' = [op |-> "delete", id |-> id, threadFails |-> threadFails,
                        threadAttempted |-> FALSE, threadBefore |-> << >>,
                        result |-> [ok |-> FALSE, session |-> "",
                                    error |-> "id is required"]]
            /\ UNCHANGED <<sessions, checkpoints, resources>>
       ELSE IF ~SessionExists(id)
       THEN /\ call' = [op |-> "delete", id |-> id, threadFails |-> threadFails,
                        threadAttempted |-> FALSE, threadBefore |-> << >>,
                        result |-> [ok |-> FALSE, session |-> "",
                                    error |-> "Record to delete does not exist"]]
            /\ UNCHANGED <<sessions, checkpoints, resources>>
       ELSE /\ sessions' = sessions \ {id}
            /\ resources' = SelectSeq(resources, LAMBDA r : r.sessionId # id)
            /\ checkpoints' = IF threadFails THEN checkpoints
                              ELSE [checkpoints EXCEPT ![id] = << >>]
            /\ call' = [op |-> "delete", id |-> id, threadFails |-> threadFails,
                        threadAttempted |-> TRUE, threadBefore |-> checkpoints[id],
                        result |-> SessionDeleteResult(id, ~threadFails)]
    /\ UNCHANGED <<files, executions>>
    /\ UNCHANGED <<dbMessages, apiKey, llm, pc, gen, error, state, messages,
                   iteration, responseContent, toolRuns, events, accumulatedContent,
                   yielded, frames, trace>>

\* messageService.listBySession(sessionId) is called; checkpointer.get may throw
ListBySessionCall(sessionId, readFails) ==
    /\ call = NoCall
    /\ call' = [op |-> "listBySession", sessionId |-> sessionId,
                readFails |-> readFails,
                result |-> CheckpointRead(sessionId, readFails).history]
    /\ UNCHANGED <<resources, files, executions>>
    /\ UNCHANGED <<sessions, dbMessages, checkpoints, apiKey, llm, pc, gen, error,
                   state, messages, iteration, responseContent, toolRuns, events,
                   accumulatedContent, yielded, frames, trace>>

\* what an execution adds to a thread: a user turn, a plain answer, a tool
\* round whose assistant message has no text, a tool round whose has text
TurnGroups ==
    { <<HumanMessage(<<"h">>, <<"img0">>)>>,
      <<AIMessage(<<"a">>, << >>)>>,
      <<AIMessage(EmptyText, <<DefaultCall>>),
        ToolMessage(JsonSuccess("execute_sql_query", 1, 1), "call_1")>>,
      <<AIMessage(<<"b">>, <<DefaultCall>>),
        ToolMessage(JsonSuccess("execute_sql_query", 1, 1), "call_1")>> }

RECURSIVE Flatten(_)
Flatten(groups) ==
    IF groups = << >> THEN << >> ELSE Head(groups) \o Flatten(Tail(groups))

\* the checkpointed threads of s1: up to MaxGroups turn groups, or PriorThread
Threads ==
    {PriorThread} \cup
        { Flatten(groups) : groups \in UNION { [1..n -> TurnGroups] : n \in 0..MaxGroups } }

\* the services are called with no execution running, for every thread of s1
ServiceInit ==
    /\ sessions = {"s1", "s3"}
    /\ dbMessages = << >>
    /\ checkpoints \in { [s \in SessionIds |-> IF s = "s1" THEN t ELSE << >>] :
                            t \in Threads }
    /\ apiKey = TRUE
    /\ llm = DefaultStub
    /\ pc = "idle"
    /\ gen = "idle"
    /\ error = ""
    /\ state = EmptyState
    /\ messages = << >>
    /\ iteration = 0
    /\ responseContent = EmptyText
    /\ toolRuns = << >>
    /\ events = << >>
    /\ accumulatedContent = EmptyText
    /\ yielded = << >>
    /\ frames = << >>
    /\ trace = EmptyTrace
    /\ call = NoCall
    /\ resources = ResourceTable
    /\ files = FileTable
    /\ executions = << >>

ServiceNext ==
    \/ FilterDataCall
    \/ GetCsvSchemaCall
    \/ \E id \in SessionIds \cup {""}, threadFails \in BOOLEAN :
           SessionDelete(id, threadFails)
    \/ \E sessionId \in SessionIds, readFails \in BOOLEAN :
           ListBySessionCall(sessionId, readFails)

ServiceSpec == ServiceInit /\ [][ServiceNext]_vars

----------------------------------------------------------------------------
(* The conditional-routing variant of the graph:
   loadCsvMetadata -> model -> shouldContinue -> tools -> model, compiled
   with the checkpointer.  streamAgent passes an empty message list, which
   the reducer appends to the checkpointed thread. *)

\* createMessageWithImagesSchema: either content or images must be provided
CreateMessageWithImagesSchema(req) ==
    Trim(req.userMessage) # EmptyText \/ Len(req.images) > 0

\* streamAgent of the variant: the session is validated, the initial state
\* built and the graph started on the thread of the session
RoutingStart(req) ==
    /\ pc = "idle"
    /\ RequestExplored(req)
    /\ CreateMessageWithImagesSchema(req)
    /\ IF SessionExists(req.sessionId)
       THEN /\ state' = [sessionId |-> req.sessionId,
                         messages |-> checkpoints[req.sessionId],
                         csvResourcesMetadata |-> << >>,
                         currentQuery |-> req.userMessage,
                         currentQueryImages |-> req.images]
            /\ pc' = "loadCsvMetadata"
            /\ gen' = "running"
            /\ error' = error
       ELSE /\ pc' = "failed"
            /\ gen' = "threw"
            /\ error' = "Session not found"
            /\ state' = state
    /\ trace' = [trace EXCEPT !.request = req]
    /\ UNCHANGED <<resources, files, executions>>
    /\ UNCHANGED <<call, sessions, dbMessages, checkpoints, apiKey, llm, messages,
                   iteration, responseContent, toolRuns, events, accumulatedContent,
                   yielded, frames>>

\* the loadCsvMetadata node of the variant; the checkpointer saves the
\* thread after every node
RoutingLoadCsvMetadata ==
    /\ pc = "loadCsvMetadata"
    /\ state' = [state EXCEPT
                    !.csvResourcesMetadata = LoadCsvMetadataNodeResult(state.sessionId)]
    /\ checkpoints' = [checkpoints EXCEPT ![state.sessionId] = state.messages]
    /\ trace' = [trace EXCEPT !.graphRuns = @ + 1]
    /\ pc' = "model"
    /\ UNCHANGED <<resources, files, executions>>
    /\ UNCHANGED <<call, sessions, dbMessages, apiKey, llm, gen, error, messages,
                   iteration, responseContent, toolRuns, events, accumulatedContent,
                   yielded, frames>>

\* shouldContinue: 'tools' if the last message is an AIMessage with tool
\* calls, END otherwise
ShouldContinue(msgs) ==
    IF Len(msgs) = 0 THEN "end"
    ELSE IF msgs[Len(msgs)].type = "ai" /\ Len(msgs[Len(msgs)].tool_calls) > 0
    THEN "tools"
    ELSE "end"

\* modelNode, then the conditional edge: the current query is added if
\* (state.currentQuery), the model is invoked and answers with its tool calls
\* or with its final text, and messagesToAdd is appended by the reducer.
\* The model follows the graph for MaxSupersteps supersteps
ModelNode(wantsTools) ==
    /\ pc = "model"
    /\ trace.graphRuns + trace.invokes + trace.toolRounds < MaxSupersteps
    /\ IF ~apiKey
       THEN /\ pc' = "failed"
            /\ gen' = "threw"
            /\ error' = "GOOGLE_API_KEY or LLM_API_KEY environment variable is required"
            /\ UNCHANGED <<state, messages, checkpoints, trace>>
       ELSE LET hasQuery == state.currentQuery # EmptyText
                currentQueryMessage == CurrentQueryMessage(state)
                response == IF wantsTools
                            THEN AIMessage(llm.toolContent, llm.tool_calls)
                            ELSE AIMessage(llm.finalContent, << >>)
                messagesToAdd == IF hasQuery THEN <<currentQueryMessage, response>>
                                 ELSE <<response>>
            IN  /\ messages' =
                       <<SystemMessage(BuildSystemPrompt(state.csvResourcesMetadata))>>
                           \o state.messages
                           \o (IF hasQuery THEN <<currentQueryMessage>> ELSE << >>)
                /\ state' = [state EXCEPT !.messages = @ \o messagesToAdd,
                                          !.currentQuery = EmptyText,
                                          !.currentQueryImages = << >>]
                /\ checkpoints' = [checkpoints EXCEPT
                                      ![state.sessionId] = state'.messages]
                /\ trace' = [trace EXCEPT
                                !.invokes = @ + 1,
                                !.texts = Append(@, response.content),
                                !.userTurnAdded =
                                    Append(@, /\ Len(messagesToAdd) = 2
                                              /\ messagesToAdd[1].type = "human"
                                              /\ messages'[Len(messages')]
                                                     = messagesToAdd[1])]
                /\ pc' = ShouldContinue(state'.messages)
                /\ gen' = IF pc' = "end" THEN "returned" ELSE gen
                /\ error' = error
    /\ UNCHANGED <<resources, files, executions>>
    /\ UNCHANGED <<call, sessions, dbMessages, apiKey, llm, iteration, responseContent,
                   toolRuns, events, accumulatedContent, yielded, frames>>

\* the tools node, a ToolNode with handleToolErrors: true: one ToolMessage
\* for every tool call of the last message, then the edge back to the model
ToolsNode ==
    /\ pc = "tools"
    /\ trace.graphRuns + trace.invokes + trace.toolRounds < MaxSupersteps
    /\ LET calls == state.messages[Len(state.messages)].tool_calls
           ToolNodeRun(toolCall) ==
               LET started == StartToolCall(toolCall)
                   invoked == IF started.st = "invoking"
                              THEN ToolInvoke(toolCall, started) ELSE started
               IN  IF invoked.st = "loading"
                   THEN ToolLoad(toolCall, invoked, "none") ELSE invoked
       IN  state' = [state EXCEPT !.messages = @ \o
                        [i \in 1..Len(calls) |->
                            ToolMessage(ToolNodeRun(calls[i]).result, calls[i].id)]]
    /\ checkpoints' = [checkpoints EXCEPT ![state.sessionId] = state'.messages]
    /\ trace' = [trace EXCEPT !.toolRounds = @ + 1]
    /\ pc' = "model"
    /\ UNCHANGED <<resources, files, executions>>
    /\ UNCHANGED <<call, sessions, dbMessages, apiKey, llm, gen, error, messages,
                   iteration, responseContent, toolRuns, events, accumulatedContent,
                   yielded, frames>>

\* an execution of the variant, for the default stub and the stubs of every
\* list of tool calls
RoutingInit ==
    /\ sessions = {"s1", "s3"}
    /\ dbMessages = << >>
    /\ checkpoints = [s \in SessionIds |-> IF s = "s1" THEN PriorThread ELSE << >>]
    /\ apiKey \in BOOLEAN
    /\ llm \in {DefaultStub} \cup { Stub(<<"a">>, <<"b">>, c, "stream") : c \in CallLists }
    /\ pc = "idle"
    /\ gen = "idle"
    /\ error = ""
    /\ state = EmptyState
    /\ messages = << >>
    /\ iteration = 0
    /\ responseContent = EmptyText
    /\ toolRuns = << >>
    /\ events = << >>
    /\ accumulatedContent = EmptyText
    /\ yielded = << >>
    /\ frames = << >>
    /\ trace = EmptyTrace
    /\ call = NoCall
    /\ resources = ResourceTable
    /\ files = FileTable
    /\ executions = << >>

RoutingNext ==
    \/ \E req \in Requests : RoutingStart(req)
    \/ RoutingLoadCsvMetadata
    \/ \E wantsTools \in BOOLEAN : ModelNode(wantsTools)
    \/ ToolsNode

RoutingSpec == RoutingInit /\ [][RoutingNext]_vars

----------------------------------------------------------------------------
(* Two executions of streamAgent on the same session, side by side with a
   delete of the session.  Every await of streamAgent and of saveMessageNode
   is a step; the graph up to the return of agentNode touches neither the
   Message table nor the sessions and is one step. *)

\* streamAgent: sessionService.getById(sessionId), throw if null
ExecValidateSession(e, req) ==
    /\ executions[e].pc = "idle"
    /\ executions' = [executions EXCEPT
                         ![e].request = req,
                         ![e].pc = IF SessionExists(req.sessionId)
                                   THEN "loadHistory" ELSE "failed"]
    /\ UNCHANGED <<resources, files>>
    /\ UNCHANGED <<call, sessions, dbMessages, checkpoints, apiKey, llm, pc, gen, error,
                   state, messages, iteration, responseContent, toolRuns, events,
                   accumulatedContent, yielded, frames, trace>>

\* streamAgent: messageService.listBySession, then the initial state
ExecLoadHistory(e) ==
    /\ executions[e].pc = "loadHistory"
    /\ LET req == executions[e].request
       IN  executions' = [executions EXCEPT
               ![e].state = [sessionId |-> req.sessionId,
                             messages |-> HistoryMessages(req.sessionId),
                             csvResourcesMetadata |-> << >>,
                             currentQuery |-> req.userMessage,
                             currentQueryImages |-> req.images],
               ![e].pc = "createUser"]
    /\ UNCHANGED <<resources, files>>
    /\ UNCHANGED <<call, sessions, dbMessages, checkpoints, apiKey, llm, pc, gen, error,
                   state, messages, iteration, responseContent, toolRuns, events,
                   accumulatedContent, yielded, frames, trace>>

\* streamAgent: messageService.create of the user message; added records the
\* rows the execution inserted and where
ExecCreateUserMessage(e) ==
    /\ executions[e].pc = "createUser"
    /\ dbMessages' = MessageServiceCreate(dbMessages, executions[e].state.sessionId,
                                          "user", executions[e].request.userMessage,
                                          executions[e].request.images)
    /\ executions' = [executions EXCEPT
                         ![e].added = Append(@, [role |-> "user",
                                                 at |-> Len(dbMessages')]),
                         ![e].pc = "agent"]
    /\ UNCHANGED <<resources, files>>
    /\ UNCHANGED <<call, sessions, checkpoints, apiKey, llm, pc, gen, error,
                   state, messages, iteration, responseContent, toolRuns, events,
                   accumulatedContent, yielded, frames, trace>>

\* the graph up to the return of agentNode, whose answer is content
ExecAgent(e, content) ==
    /\ executions[e].pc = "agent"
    /\ executions' = [executions EXCEPT
                         ![e].state.messages =
                             AgentNewMessages(executions[e].state, content),
                         ![e].k = 1,
                         ![e].pc = "find"]
    /\ UNCHANGED <<resources, files>>
    /\ UNCHANGED <<call, sessions, dbMessages, checkpoints, apiKey, llm, pc, gen, error,
                   state, messages, iteration, responseContent, toolRuns, events,
                   accumulatedContent, yielded, frames, trace>>

\* saveMessageNode, one await at a time: findFirst and create for each of the
\* last two messages, then session.update, which throws for a missing session
ExecSaveMessage(e) ==
    LET x          == executions[e]
        toSave     == LastTwo(x.state.messages)
        msg        == toSave[x.k]
        afterSaved == IF x.k + 1 > Len(toSave) THEN "update" ELSE "find"
    IN  /\ x.pc \in {"find", "create", "update"}
        /\ CASE x.pc = "find" ->
                  /\ executions' = [executions EXCEPT
                         ![e].pc = IF MessageExists(dbMessages, x.state.sessionId, msg)
                                   THEN afterSaved ELSE "create",
                         ![e].k = IF MessageExists(dbMessages, x.state.sessionId, msg)
                                  THEN x.k + 1 ELSE x.k]
                  /\ dbMessages' = dbMessages
             [] x.pc = "create" ->
                  /\ dbMessages' = Append(dbMessages,
                         MessageRow(x.state.sessionId, msg.role, msg.content, msg.images))
                  /\ executions' = [executions EXCEPT
                         ![e].added = Append(@, [role |-> msg.role,
                                                 at |-> Len(dbMessages')]),
                         ![e].k = x.k + 1,
                         ![e].pc = afterSaved]
             [] OTHER ->
                  /\ executions' = [executions EXCEPT
                         ![e].pc = IF SessionExists(x.state.sessionId)
                                   THEN "done" ELSE "failed"]
                  /\ dbMessages' = dbMessages
        /\ UNCHANGED <<resources, files>>
        /\ UNCHANGED <<call, sessions, checkpoints, apiKey, llm, pc, gen, error,
                       state, messages, iteration, responseContent, toolRuns, events,
                       accumulatedContent, yielded, frames, trace>>

ConcurrentInit ==
    /\ sessions = {"s1", "s3"}
    /\ dbMessages = << >>
    /\ checkpoints = [s \in SessionIds |-> IF s = "s1" THEN PriorThread ELSE << >>]
    /\ apiKey = TRUE
    /\ llm = DefaultStub
    /\ pc = "idle"
    /\ gen = "idle"
    /\ error = ""
    /\ state = EmptyState
    /\ messages = << >>
    /\ iteration = 0
    /\ responseContent = EmptyText
    /\ toolRuns = << >>
    /\ events = << >>
    /\ accumulatedContent = EmptyText
    /\ yielded = << >>
    /\ frames = << >>
    /\ trace = EmptyTrace
    /\ call = NoCall
    /\ resources = ResourceTable
    /\ files = FileTable
    /\ executions = [e \in {1, 2} |->
                        [pc |-> "idle", request |-> DefaultRequest,
                         state |-> EmptyState, k |-> 0, added |-> << >>]]

ConcurrentNext ==
    \/ \E e \in {1, 2}, u \in {<<"q">>, <<"b">>} :
           ExecValidateSession(e, Request("s1", u, << >>))
    \/ \E e \in {1, 2} : ExecLoadHistory(e)
    \/ \E e \in {1, 2} : ExecCreateUserMessage(e)
    \/ \E e \in {1, 2}, content \in {<<"a">>, <<"b">>} : ExecAgent(e, content)
    \/ \E e \in {1, 2} : ExecSaveMessage(e)
    \/ \E threadFails \in BOOLEAN : SessionDelete("s1", threadFails)

ConcurrentSpec == ConcurrentInit /\ [][ConcurrentNext]_vars

----------------------------------------------------------------------------
(* The resources of the sessions: uploads, deletes and session deletes, each
   of which may fail at one of its awaits.  A deleted file stays in files as
   an unreadable one, so that no stored path is used twice. *)

allowedCsvMimeTypes == {"text/csv", "application/csv", "application/vnd.ms-excel", "text/plain"}

\* putObject, then prisma.resource.create: the end of createFromUpload and of
\* createFromUrl.  failAt names the await that throws: "put" (nothing is
\* written), "create" (the file is written, the row is not), "none"
StoreResource(sessionId, originalName, mimeType, failAt) ==
    LET n          == Cardinality(DOMAIN files) + 1
        storedPath == "/uploads/" \o sessionId \o "/u" \o ToString(n)
    IN  /\ files' = IF failAt = "put" THEN files
                    ELSE [path \in DOMAIN files \cup {storedPath} |->
                             IF path = storedPath
                             THEN [readable |-> TRUE, headers |-> <<"c">>, nrows |-> 1]
                             ELSE files[path]]
        /\ resources' = IF failAt # "none" THEN resources
                        ELSE Append(resources,
                                 [id |-> "u" \o ToString(n), sessionId |-> sessionId,
                                  originalName |-> originalName,
                                  storedPath |-> storedPath, mimeType |-> mimeType,
                                  sizeBytes |-> 1])

\* POST resources with a file: the route checks the session, createFromUpload
\* takes the name and type of the file, with their defaults
CreateFromUpload(sessionId, file, failAt) ==
    /\ Cardinality(DOMAIN files) < MaxUploads
    /\ SessionExists(sessionId)
    /\ LET originalName == IF file.name # "" THEN file.name ELSE "upload.csv"
           mimeType     == IF file.type # "" THEN file.type ELSE "text/csv"
       IN  StoreResource(sessionId, originalName,
                         IF mimeType \in allowedCsvMimeTypes THEN mimeType
                         ELSE "text/csv",
                         failAt)
    /\ UNCHANGED executions
    /\ UNCHANGED <<call, sessions, dbMessages, checkpoints, apiKey, llm, pc, gen, error,
                   state, messages, iteration, responseContent, toolRuns, events,
                   accumulatedContent, yielded, frames, trace>>

\* POST resources with a url: createFromUrl throws unless the name ends with
\* .csv and the content type is an allowed one
CreateFromUrl(sessionId, originalName, contentType, failAt) ==
    /\ Cardinality(DOMAIN files) < MaxUploads
    /\ SessionExists(sessionId)
    /\ IF NameEndsWithCsv(originalName) /\ contentType \in allowedCsvMimeTypes
       THEN StoreResource(sessionId, originalName, contentType, failAt)
       ELSE UNCHANGED <<files, resources>>
    /\ UNCHANGED executions
    /\ UNCHANGED <<call, sessions, dbMessages, checkpoints, apiKey, llm, pc, gen, error,
                   state, messages, iteration, responseContent, toolRuns, events,
                   accumulatedContent, yielded, frames, trace>>

\* resourceService.delete: findUnique, deleteObject (a missing file is not
\* an error), prisma.resource.delete.  failAt names the await that throws:
\* "unlink", "delete" (the file is gone, the row is not), "none"
ResourceDelete(id, failAt) ==
    /\ ResourceGetById(id) # << >>
    /\ LET resource == ResourceGetById(id)[1]
       IN  /\ files' = IF failAt = "unlink" THEN files
                       ELSE [files EXCEPT ![resource.storedPath].readable = FALSE]
           /\ resources' = IF failAt # "none" THEN resources
                           ELSE SelectSeq(resources, LAMBDA r : r.id # id)
    /\ UNCHANGED executions
    /\ UNCHANGED <<call, sessions, dbMessages, checkpoints, apiKey, llm, pc, gen, error,
                   state, messages, iteration, responseContent, toolRuns, events,
                   accumulatedContent, yielded, frames, trace>>

\* loadCsvMetadataNode runs for the session in the next execution
LoadCsvMetadataNodeCall(sessionId) ==
    /\ call = NoCall
    /\ call' = [op |-> "loadCsvMetadataNode", sessionId |-> sessionId,
                listed |-> ResourceListBySession(sessionId),
                result |-> LoadCsvMetadataNodeResult(sessionId)]
    /\ UNCHANGED <<resources, files, executions>>
    /\ UNCHANGED <<sessions, dbMessages, checkpoints, apiKey, llm, pc, gen, error,
                   state, messages, iteration, responseContent, toolRuns, events,
                   accumulatedContent, yielded, frames, trace>>

\* two sessions without resources, an empty uploads directory
ResourceInit ==
    /\ sessions = {"s1", "s3"}
    /\ dbMessages = << >>
    /\ checkpoints = [s \in SessionIds |-> << >>]
    /\ apiKey = TRUE
    /\ llm = DefaultStub
    /\ pc = "idle"
    /\ gen = "idle"
    /\ error = ""
    /\ state = EmptyState
    /\ messages = << >>
    /\ iteration = 0
    /\ responseContent = EmptyText
    /\ toolRuns = << >>
    /\ events = << >>
    /\ accumulatedContent = EmptyText
    /\ yielded = << >>
    /\ frames = << >>
    /\ trace = EmptyTrace
    /\ call = NoCall
    /\ resources = << >>
    /\ files = << >>
    /\ executions = << >>

ResourceNext ==
    \/ \E sessionId \in {"s1", "s3"}, name \in {"up.csv", "data.txt", ""},
          type \in {"text/csv", "text/plain", "image/png", ""},
          failAt \in {"none", "put", "create"} :
           CreateFromUpload(sessionId, [name |-> name, type |-> type], failAt)
    \/ \E sessionId \in {"s1", "s3"}, name \in {"feed.csv", "feed.txt"},
          contentType \in {"application/csv", "text/html"},
          failAt \in {"none", "put", "create"} :
           CreateFromUrl(sessionId, name, contentType, failAt)
    \/ \E n \in 1..MaxUploads, failAt \in {"none", "unlink", "delete"} :
           ResourceDelete("u" \o ToString(n), failAt)
    \/ \E id \in {"s1", "s3"}, threadFails \in BOOLEAN : SessionDelete(id, threadFails)
    \/ \E sessionId \in {"s1", "s3"} : LoadCsvMetadataNodeCall(sessionId)

ResourceSpec == ResourceInit /\ [][ResourceNext]_vars

----------------------------------------------------------------------------
(* Properties *)

\* the text of the last response the model gave in this execution
LastModelText == trace.texts[Len(trace.texts)]

\* agentNode has returned after the cap stopped its loop
ReturnedAtCap == pc = "saveMessage" /\ trace.toolRounds = 5

\* the assistant turn agentNode returned
FinalAssistantTurn == state.messages[Len(state.messages)]

\* C1: whatever the model answers, one run of agentNode invokes the model at
\* most 5 times and executes at most 5 tool rounds; after the fifth round it
\* neither invokes the model nor runs tools again but goes on to return
C1_LoopBounded ==
    /\ trace.invokes <= 5
    /\ trace.toolRounds <= 5
    /\ iteration <= 5
    /\ trace.toolRounds = 5 => pc \notin {"invoke", "tools"}

\* a model that asked for tools in all five responses, and agentNode returned
C1_Witness ==
    /\ ReturnedAtCap
    /\ trace.invokes = 5

\* C2: when agentNode stops at the 5-round cap, the final assistant turn it
\* returns carries the text of the last model response (so it is non-empty
\* whenever that text is)
C2_CapKeepsLastText ==
    ReturnedAtCap =>
        /\ FinalAssistantTurn.role = "assistant"
        /\ FinalAssistantTurn.content = LastModelText

\* C3: when streamAgent has ended, the concatenation of the fragments it
\* yielded is the model's text exactly once: the text of the final response,
\* or (reading the claim widely) the texts of all responses in their order
C3_StreamComplete ==
    (pc = "done" /\ gen = "returned") =>
        Concat(yielded) \in {LastModelText, Concat(trace.texts)}

\* the message at position k is the tool result of the i-th request of the
\* assistant message at position j
AnswersRequest(msgs, j, i) ==
    /\ j + i <= Len(msgs)
    /\ msgs[j + i].type = "tool"
    /\ msgs[j + i].tool_call_id # NoId
    /\ msgs[j].tool_calls[i].id # NoId =>
           msgs[j + i].tool_call_id = msgs[j].tool_calls[i].id
    /\ \A h \in 1..Len(msgs[j].tool_calls) :
           h # i /\ j + h <= Len(msgs) =>
               msgs[j + h].tool_call_id # msgs[j + i].tool_call_id

\* the assistant message at position j requested tools
RequestsTools(msgs, j) == msgs[j].type = "ai" /\ Len(msgs[j].tool_calls) > 0

\* C4: whenever the model is not waiting for a round's tools, every assistant
\* message with tool-call requests is followed by exactly one tool result per
\* request, in the order of the requests and tagged with the request's call
\* identifier (a fresh one when the request has none), and then by no further
\* tool result; every tool result answers a request of the nearest assistant
\* message before it
C4_ToolResultsMatchRequests ==
    pc \in {"invoke", "finish", "saveMessage"} =>
        /\ \A j \in 1..Len(messages) :
               RequestsTools(messages, j) =>
                   /\ \A i \in 1..Len(messages[j].tool_calls) :
                          AnswersRequest(messages, j, i)
                   /\ LET after == j + Len(messages[j].tool_calls) + 1
                      IN  after <= Len(messages) => messages[after].type # "tool"
        /\ \A k \in 1..Len(messages) :
               messages[k].type = "tool" =>
                   \E j \in 1..(k - 1) :
                       /\ RequestsTools(messages, j)
                       /\ k - j <= Len(messages[j].tool_calls)
                       /\ AnswersRequest(messages, j, k - j)

\* two rounds of two requests each have been answered, one request without
\* an identifier, and the model is to be invoked again
C4_Witness ==
    /\ pc = "invoke"
    /\ iteration = 2
    /\ Len(llm.tool_calls) = 2
    /\ \E i \in 1..2 : llm.tool_calls[i].id = NoId
    /\ messages[Len(messages)].type = "tool"

\* the call names an unknown tool or its arguments fail validation
FailsBeforeExecution(toolCall) == toolCall.name \notin ToolNames \/ ~ValidArgs(toolCall)

\* the call's resource is missing or its file cannot be read
FailsInExecution(toolCall) ==
    /\ toolCall.name \in ToolNames
    /\ ValidArgs(toolCall)
    /\ toolCall.args.resourceId \in {"r2", "r9"}

\* C5: in a tool round no call is ever rejected; a settled call that names an
\* unknown tool, has invalid arguments or fails in execution carries an error
\* text; and the round ends only by appending one result per call and going on
\* to the next model invocation (or, at the cap, to the end of the loop),
\* never by failing agentNode
C5_ToolFailureContained ==
    [][ pc = "tools" =>
          /\ \A i \in DOMAIN toolRuns :
                 /\ toolRuns[i].st # "rejected"
                 /\ (toolRuns[i].st = "resolved"
                        /\ (FailsBeforeExecution(CurrentCalls[i])
                              \/ FailsInExecution(CurrentCalls[i]))) =>
                        IsErrorResult(toolRuns[i].result)
          /\ pc' \notin {"tools", "cancelled"} =>
                 /\ pc' = IF iteration' < 5 THEN "invoke" ELSE "finish"
                 /\ Len(messages') = Len(messages) + Len(CurrentCalls)
                 /\ \A i \in DOMAIN toolRuns :
                        messages'[Len(messages) + i].result = toolRuns[i].result
      ]_vars

\* a round with an unknown tool and a call with invalid arguments has been
\* answered with two error results, and the model is to be invoked again
C5_Witness ==
    /\ pc = "invoke"
    /\ Len(llm.tool_calls) = 2
    /\ llm.tool_calls[1].name \notin ToolNames
    /\ ~ValidArgs(llm.tool_calls[2])
    /\ messages[Len(messages)].type = "tool"
    /\ IsErrorResult(messages[Len(messages)].result)
    /\ IsErrorResult(messages[Len(messages) - 1].result)

\* the roles of the rows the execution added to the Message table
NewRoles ==
    [k \in 1..(Len(dbMessages) - Len(trace.dbBefore)) |->
        dbMessages[Len(trace.dbBefore) + k].role]

\* C6: after an execution in which the model requested one tool call and then
\* answered in plain text, the persisted conversation has gained exactly four
\* turns: user, assistant with the tool call, tool result, final assistant
C6_FourTurnsPersisted ==
    (pc = "done" /\ trace.toolRounds = 1 /\ trace.invokes = 2
        /\ Len(llm.tool_calls) = 1) =>
        /\ SubSeq(dbMessages, 1, Len(trace.dbBefore)) = trace.dbBefore
        /\ NewRoles = <<"user", "assistant", "tool", "assistant">>

\* the execution aborted: the model invocation failed or the credential was
\* missing, or the consumer stopped and the run was abandoned
Aborted ==
    \/ /\ pc = "failed"
       /\ error \in {"model invocation failed",
                     "GOOGLE_API_KEY or LLM_API_KEY environment variable is required"}
    \/ pc = "cancelled"

\* C7: an execution that aborted has persisted none of its turns: the Message
\* table is as it was before the execution
C7_AbortPersistsNothing == Aborted => dbMessages = trace.dbBefore

\* the queries whose trimmed text does not begin with 'select'
NonSelectQueries == {QDrop, QDeleteThenSelect, QSelec, QBlank, EmptyText}

\* the i-th call of the round runs executeSqlQuery with a query that is not
\* a select
RunsNonSelect(i) ==
    /\ CurrentCalls[i].name = "execute_sql_query"
    /\ ValidArgs(CurrentCalls[i])
    /\ CurrentCalls[i].args.sqlQuery \in NonSelectQueries

\* C8: a query whose trimmed text does not begin with 'select' never gets
\* executeSqlQuery to load the resource, to create the in-memory store or to
\* execute; the call fails with the only-SELECT error
C8_NonSelectRejected ==
    pc = "tools" =>
        \A i \in DOMAIN toolRuns :
            RunsNonSelect(i) =>
                /\ ~toolRuns[i].loaded
                /\ ~toolRuns[i].opened
                /\ ~toolRuns[i].executed
                /\ toolRuns[i].st \in {"invoking", "resolved"}
                /\ toolRuns[i].st = "resolved" =>
                       /\ ~toolRuns[i].result.success
                       /\ toolRuns[i].result.error = OnlySelectError

\* a query that holds 'select' but does not begin with it has been rejected
\* for a resource whose file exists
C8_Witness ==
    /\ pc = "tools"
    /\ \E i \in DOMAIN toolRuns :
           /\ RunsNonSelect(i)
           /\ CurrentCalls[i].args.sqlQuery = QDeleteThenSelect
           /\ CurrentCalls[i].args.resourceId = "r1"
           /\ toolRuns[i].st = "resolved"
           /\ toolRuns[i].result.error = OnlySelectError

\* C9: streamAgent called for a session that does not exist fails with the
\* session-not-found error and has loaded no history, persisted nothing and
\* started neither the graph nor the model; the stored state is as it was
C9_MissingSessionFailsFirst ==
    (pc # "idle" /\ trace.request.sessionId \notin sessions) =>
        /\ pc = "failed"
        /\ gen = "threw"
        /\ error = "Session not found"
        /\ trace.historyLoads = 0
        /\ trace.graphRuns = 0
        /\ trace.invokes = 0
        /\ dbMessages = trace.dbBefore
        /\ checkpoints["s1"] = PriorThread
        /\ \A s \in SessionIds \ {"s1"} : checkpoints[s] = << >>
        /\ state = EmptyState

\* streamAgent was called for the session s2, which does not exist, and failed
C9_Witness ==
    /\ pc = "failed"
    /\ trace.request.sessionId = "s2"
    /\ error = "Session not found"

\* C10: when the graph raised while the fragments were being consumed, the
\* sequence ends normally after a last fragment that carries the error; it
\* does not raise to its consumer
C10_GraphErrorIsFragment ==
    (pc = "failed" /\ trace.graphRuns = 1 /\ gen # "stopped") =>
        gen = "returned"

\* the frame ends a response: the [DONE] marker or an error frame
IsTerminalFrame(f) == f.type \in {"done", "error"}

\* zero or more content frames, then at most one terminal frame
FramesWellFormed(fs) ==
    \A k \in 1..Len(fs) :
        IF k < Len(fs) THEN fs[k].type = "content"
        ELSE fs[k].type \in {"content", "done", "error"}

\* the response has got its terminal frame
FramesEnded(fs) == Len(fs) > 0 /\ IsTerminalFrame(fs[Len(fs)])

\* C11: the frames of a response are content frames followed by one terminal
\* frame, [DONE] when the fragment sequence returned and one error frame when
\* it raised; no response holds both, and once the terminal frame is enqueued
\* no frame follows it
C11_FramesEndOnce ==
    [][ /\ FramesWellFormed(frames)
        /\ FramesWellFormed(frames')
        /\ FramesEnded(frames) => frames' = frames
        /\ gen' = "returned" => (FramesEnded(frames') /\ frames'[Len(frames')].type = "done")
        /\ gen' = "threw" => (FramesEnded(frames') /\ frames'[Len(frames')].type = "error")
      ]_vars

\* a response of content frames that ended with an error frame
C11_Witness ==
    /\ gen = "threw"
    /\ Len(frames) >= 2
    /\ frames[1].type = "content"
    /\ frames[Len(frames)].type = "error"

\* a write of saveMessageNode failed in this execution
SaveFailed == error = "database write failed"

\* C12: when a write of saveMessageNode fails, the error leaves the graph: the
\* execution never ends as a success, the fragment sequence raises unless its
\* consumer has stopped, and a response that is still consumed ends with an
\* error frame, not with [DONE]
C12_SaveFailureSurfaces ==
    SaveFailed =>
        /\ pc \in {"graphFailed", "failed"} \/ (pc = "cancelled" /\ gen = "stopped")
        /\ gen # "returned"
        /\ \A k \in 1..Len(frames) : frames[k].type # "done"
        /\ (pc = "failed" /\ gen # "stopped") =>
               /\ gen = "threw"
               /\ FramesEnded(frames)
               /\ frames[Len(frames)] = Frame("error", EmptyText, "database write failed")

\* the assistant row could not be written after an answer was streamed, and
\* the response ended with the error frame
C12_Witness ==
    /\ SaveFailed
    /\ pc = "failed"
    /\ gen = "threw"
    /\ Len(frames) >= 2
    /\ frames[Len(frames)].type = "error"

\* C13: when the read of the session's checkpoint fails, streamAgent does not
\* fail for it: it goes on with an empty history, so the model is given no
\* prior turn and agentNode returns the user turn and the answer only
C13_ReadFailureIsEmptyHistory ==
    trace.readFailed =>
        /\ error # "checkpoint read failed"
        /\ pc \in {"createUser", "loadCsvMetadata", "agent", "invoke", "tools", "finish"} =>
               state.messages = << >>
        /\ pc \in {"invoke", "tools", "finish"} =>
               (messages[1].type = "system" /\ messages[2].type = "human"
                   /\ messages[2].content = CurrentQueryMessage(state).content)
        /\ pc \in {"saveMessage", "graphEnd", "done"} => Len(state.messages) = 2

\* the checkpoint of s1, which holds a thread, could not be read and the
\* execution completed
C13_Witness ==
    /\ trace.readFailed
    /\ trace.request.sessionId = "s1"
    /\ checkpoints["s1"] # << >>
    /\ pc = "done"
    /\ Len(state.messages) = 2

\* C14: a call of executeSqlQuery that has returned or thrown has closed the
\* store it opened, whether the table creation, the insertion or the query
\* failed or all succeeded; a call that opened no store closed none, and a
\* pending call holds no open store
C14_StoreClosed ==
    pc = "tools" =>
        \A i \in DOMAIN toolRuns :
            /\ toolRuns[i].opened = toolRuns[i].closed
            /\ toolRuns[i].st \in {"invoking", "loading"} => ~toolRuns[i].opened
            /\ toolRuns[i].executed => toolRuns[i].opened

\* a call whose store failed before the query was run has settled with the
\* error, its store opened and closed
C14_Witness ==
    /\ pc = "tools"
    /\ \E i \in DOMAIN toolRuns :
           /\ toolRuns[i].st = "resolved"
           /\ toolRuns[i].opened
           /\ ~toolRuns[i].executed
           /\ toolRuns[i].closed
           /\ toolRuns[i].result.error = "SQL query execution failed"

\* the CSV resources of the sessions, newest first
CsvResourceIds(sessionId) ==
    CASE sessionId = "s1" -> <<"r2", "r1">>
      [] sessionId = "s3" -> <<"r4", "r3">>
      [] OTHER -> << >>

\* the metadata entry is the one of the resource: with the schema fields when
\* the resource's file can be read, with id, name, path and size only when not
EntryOf(entry, id) ==
    LET r == ResourceGetById(id)[1]
        f == FileTable[r.storedPath]
    IN  /\ entry.id = id
        /\ entry.originalName = r.originalName
        /\ entry.storedPath = r.storedPath
        /\ entry.sizeBytes = r.sizeBytes
        /\ entry.hasSchema = f.readable
        /\ ~f.readable => (entry.columns = << >> /\ entry.rowCount = 0)
        /\ f.readable => entry.columns = f.headers

\* C15: once loadCsvMetadataNode has run, the state holds one metadata entry
\* per CSV resource of the session, in the order of the resources; the entry
\* of a resource whose schema fails has no schema fields, the other entries
\* are complete, and the execution has gone on
C15_OneEntryPerResource ==
    (trace.graphRuns = 1 /\ pc # "loadCsvMetadata") =>
        LET ids  == CsvResourceIds(state.sessionId)
            meta == state.csvResourcesMetadata
        IN  /\ Len(meta) = Len(ids)
            /\ \A i \in 1..Len(ids) : EntryOf(meta[i], ids[i])

\* session s1, whose first resource has lost its file: two entries, the first
\* without schema, the second with its columns, and the agent has started
C15_Witness ==
    /\ pc = "invoke"
    /\ state.sessionId = "s1"
    /\ Len(state.csvResourcesMetadata) = 2
    /\ ~state.csvResourcesMetadata[1].hasSchema
    /\ state.csvResourcesMetadata[2].hasSchema
    /\ state.csvResourcesMetadata[2].columns = <<"Region", "Amount">>

\* C16: the rowCount getCsvSchema returns for a resource is the number of
\* data rows of the resource's file, whatever the size of the file: seen in
\* the metadata entries loadCsvMetadata builds from it
C16_SchemaRowCountIsTotal ==
    (trace.graphRuns = 1 /\ pc # "loadCsvMetadata") =>
        \A i \in 1..Len(state.csvResourcesMetadata) :
            LET entry == state.csvResourcesMetadata[i]
            IN  entry.hasSchema =>
                    /\ entry.columns = FileTable[entry.storedPath].headers
                    /\ entry.rowCount = FileTable[entry.storedPath].nrows

\* the number of data rows of the resource a call names
RowsOfResource(toolCall) ==
    FileTable[ResourceGetById(toolCall.args.resourceId)[1].storedPath].nrows

\* the number of rows of the full result of the queries that run
FullResultRows(toolCall) ==
    IF toolCall.args.sqlQuery = QSelectOne THEN 1 ELSE RowsOfResource(toolCall)

\* C17: a successful tool result lists at most 10 rows (load_csv_data) or 500
\* rows (execute_sql_query), and its totalRows is the true total: the number
\* of data rows of the resource for load_csv_data, whatever limit was passed,
\* and the number of rows of the full query result for execute_sql_query
C17_RowsBoundedTotalTrue ==
    pc = "tools" =>
        \A i \in DOMAIN toolRuns :
            (toolRuns[i].st = "resolved" /\ toolRuns[i].result.success) =>
                IF CurrentCalls[i].name = "load_csv_data"
                THEN /\ toolRuns[i].result.rows <= 10
                     /\ toolRuns[i].result.totalRows = RowsOfResource(CurrentCalls[i])
                ELSE /\ toolRuns[i].result.rows <= 500
                     /\ toolRuns[i].result.totalRows =
                            IF RowsOfResource(CurrentCalls[i]) = 0 THEN 0
                            ELSE FullResultRows(CurrentCalls[i])

RECURSIVE IsSubsequence(_, _)
\* s is t with some elements left out
IsSubsequence(s, t) ==
    IF s = << >> THEN TRUE
    ELSE IF t = << >> THEN FALSE
    ELSE IF Head(s) = Head(t) THEN IsSubsequence(Tail(s), Tail(t))
    ELSE IsSubsequence(s, Tail(t))

\* the positions of the rows every filter of the list accepts
AcceptedPositions(data, filters) ==
    { i \in 1..Len(data.rows) :
        \A f \in { filters[k] : k \in 1..Len(filters) } : FilterAccepts(data.rows[i], f) }

\* C18: filterData returns the rows that satisfy every filter of the list, all
\* of them and no other, in their original order; with no filter it returns
\* the rows as they are; the headers are those of the input
C18_FilterIsConjunction ==
    call.op = "filterData" =>
        /\ call.result.headers = call.data.headers
        /\ call.filters = << >> => call.result.rows = call.data.rows
        /\ IsSubsequence(call.result.rows, call.data.rows)
        /\ Len(call.result.rows) = Cardinality(AcceptedPositions(call.data, call.filters))
        /\ \A j \in 1..Len(call.result.rows), k \in 1..Len(call.filters) :
               FilterAccepts(call.result.rows[j], call.filters[k])
        /\ call.result.rowCount = Len(call.result.rows)

\* two rows and two filters: the first filter accepts both rows, the second
\* only the second row, which is the result
C18_Witness ==
    /\ call.op = "filterData"
    /\ call.data.rows = <<[a |-> 1, b |-> 0], [a |-> 1, b |-> 1]>>
    /\ call.filters = <<Filter("a", "eq", 1), Filter("b", "gte", 1)>>
    /\ call.result.rows = <<[a |-> 1, b |-> 1]>>

\* C19: sessionService.delete of an existing session removes the session,
\* attempts to delete its checkpoint thread and returns the deleted session,
\* whether or not the deletion of the thread fails and whether or not the
\* thread ever existed; a thread whose deletion failed is left as it was
C19_DeleteSurvivesThreadFailure ==
    (call.op = "delete" /\ call.id \in {"s1", "s3"}) =>
        /\ call.result.ok
        /\ call.result.session = call.id
        /\ call.id \notin sessions
        /\ call.threadAttempted
        /\ ~call.threadFails => checkpoints[call.id] = << >>
        /\ call.threadFails => checkpoints[call.id] = call.threadBefore

\* the session s3, which never had a thread, was deleted although the
\* deletion of its thread failed
C19_Witness ==
    /\ call.op = "delete"
    /\ call.id = "s3"
    /\ call.threadFails
    /\ call.result.ok
    /\ sessions = {"s1"}

\* the message is one the claim has listBySession return: a user turn, or an
\* assistant turn unless it holds tool calls and no text
IsListedTurn(m) ==
    \/ m.type = "human"
    \/ m.type = "ai" /\ ~(Len(m.tool_calls) > 0 /\ m.content = EmptyText)

\* the roles and texts of the turns the claim has listBySession return
ListedTurns(thread) ==
    LET kept == SelectSeq(thread, IsListedTurn)
    IN  [i \in 1..Len(kept) |->
            [role |-> IF kept[i].type = "human" THEN "user" ELSE "assistant",
             content |-> kept[i].content]]

\* C20: listBySession returns, in checkpoint order, every user turn and every
\* assistant turn of the thread but the assistant messages that hold tool
\* calls and no text; tool results are left out
C20_ListKeepsTextTurns ==
    (call.op = "listBySession" /\ ~call.readFails) =>
        [i \in 1..Len(call.result) |->
            [role |-> call.result[i].role, content |-> call.result[i].content]]
            = ListedTurns(checkpoints[call.sessionId])

\* C21: in the conditional-routing variant one execution performs at most
\* maxIterations model rounds, also when every response requests a tool call
C21_RoutingRoundsCapped == trace.invokes <= maxIterations

\* C24: in the conditional-routing variant modelNode adds the new user turn
\* to the model input and to the messages it returns on the first model call
\* of an execution and on no later one, for every request the route accepts
C24_UserTurnOnFirstInferOnly ==
    \A k \in 1..Len(trace.userTurnAdded) : trace.userTurnAdded[k] <=> (k = 1)

\* C22: the tool calls of a round complete in any order, and their
\* tool-result messages are appended in the order of the tool-call requests
\* of the model response
C22_ResultsInRequestOrder ==
    (Len(messages) > 0 /\ messages[Len(messages)].type = "tool") =>
        LET n     == Len(toolRuns)
            calls == messages[Len(messages) - n].tool_calls
        IN  /\ Len(calls) = n
            /\ Len(trace.settled) = n
            /\ \A i \in 1..n :
                   /\ messages[Len(messages) - n + i].type = "tool"
                   /\ messages[Len(messages) - n + i].tool_call_id
                          = ToolCallId(calls[i], i)
                   /\ messages[Len(messages) - n + i].result = toolRuns[i].result

\* the second request completed before the first, and the results are appended
C22_Witness ==
    /\ Len(messages) > 0
    /\ messages[Len(messages)].type = "tool"
    /\ Len(trace.settled) = 2
    /\ trace.settled = <<2, 1>>
    /\ toolRuns[1].result # toolRuns[2].result

\* C23: at the on_chat_model_end event of a model call streamAgent yields, at
\* most once, exactly the part of that call's text that was not streamed as
\* chunks of that call, and nothing else, also after earlier model calls of
\* the execution produced text
C23_EndYieldsUnstreamedSuffix ==
    [][ ( /\ Consuming
          /\ events # << >>
          /\ Head(events).event = "on_chat_model_end"
          /\ events' = Tail(events)
          /\ gen' # "stopped" )
        => LET content   == Head(events).content
               remaining == Slice(content, StreamedLen(llm.mode, content))
           IN  yielded' = yielded \o
                   (IF remaining # EmptyText THEN <<remaining>> ELSE << >>) ]_vars

\* C25: getCsvSchema puts every column that has a non-empty sampled value in
\* exactly one of numericColumns and textColumns, by the first non-empty
\* sampled value of the column: numeric if it coerces to a finite number
C25_ColumnsClassifiedByFirstValue ==
    call.op = "getCsvSchema" =>
        \A h \in {"a", "b"} :
            LET filled == SelectSeq(call.data.rows, LAMBDA row : row[h] # "")
                InList(list) == \E k \in 1..Len(list) : list[k] = h
            IN  filled # << >> =>
                    /\ InList(call.result.numericColumns) = IsFiniteNumber(filled[1][h])
                    /\ InList(call.result.textColumns) = ~IsFiniteNumber(filled[1][h])

\* C26: each completed execution of streamAgent adds exactly one user record
\* and exactly one assistant record to the persisted messages of the session,
\* also when its texts equal those of earlier messages of the session
C26_OneUserOneAssistantPerExecution ==
    \A e \in DOMAIN executions :
        executions[e].pc = "done" =>
            /\ Len(executions[e].added) = 2
            /\ executions[e].added[1].role = "user"
            /\ executions[e].added[2].role = "assistant"

\* C27: when two executions on the same session have both completed, the
\* user turn of each is immediately followed in the persisted conversation
\* by the assistant turn of the same execution
C27_TurnsStayPaired ==
    (\A e \in DOMAIN executions : executions[e].pc = "done") =>
        \A e \in DOMAIN executions :
            \A i \in 1..Len(executions[e].added) :
                executions[e].added[i].role = "user" =>
                    \E j \in 1..Len(executions[e].added) :
                        /\ executions[e].added[j].role = "assistant"
                        /\ executions[e].added[j].at = executions[e].added[i].at + 1

\* C28: once a delete of a session has completed, no turn is persisted for
\* that session and its checkpoint is not written, also by an execution
\* that passed the session check before the delete
C28_NothingPersistedAfterDelete ==
    [][ (call.op = "delete" /\ call.result.ok) =>
            /\ SelectSeq(dbMessages', LAMBDA m : m.sessionId = call.id)
                   = SelectSeq(dbMessages, LAMBDA m : m.sessionId = call.id)
            /\ checkpoints'[call.id] = checkpoints[call.id] ]_vars

\* C29: after any sequence of uploads, resource deletes and session deletes,
\* also ones that fail part-way, every stored upload file is referenced by
\* exactly one Resource record and every record's storedPath is an existing
\* file
C29_FilesMatchRecords ==
    /\ \A path \in DOMAIN files :
           files[path].readable =>
               Cardinality({ i \in 1..Len(resources) :
                                 resources[i].storedPath = path }) = 1
    /\ \A i \in 1..Len(resources) :
           /\ resources[i].storedPath \in DOMAIN files
           /\ files[resources[i].storedPath].readable

\* C30: every resource createFromUpload or createFromUrl accepted for a
\* session is included in csvResourcesMetadata by loadCsvMetadataNode on the
\* next execution for that session
C30_AcceptedResourcesListed ==
    call.op = "loadCsvMetadataNode" =>
        \A i \in 1..Len(call.listed) :
            \E k \in 1..Len(call.result) : call.result[k].id = call.listed[i].id

====
